---- MODULE Spec2Model ----
(***************************************************************************)
(* Verification model of the analysis orchestrator                         *)
(* (backend/functions/orchestrator): the column resolver, the static code  *)
(* validator and the dispatcher's event generator _events.                 *)
(*                                                                         *)
(* Text is modelled as a sequence of one-character strings, so that case   *)
(* folding, comparison and similarity are computed and not assumed.        *)
(* Python's None is the value None; "" is the empty sequence.              *)
(***************************************************************************)
EXTENDS Integers, Sequences, FiniteSets, TLC

\* ------------------------------------------------------------------------
\* Bounds of the model
\* ------------------------------------------------------------------------
\* deployment timeouts, in seconds, in the environments explored
ClassifierTimeoutBound == 3
CodegenTimeoutBound == 3

\* ------------------------------------------------------------------------
\* Characters and strings
\* ------------------------------------------------------------------------
None == <<"None">>
IntVal == <<"int">>

\* characters that occur in the model, in code point order
Alphabet ==
  <<",", "0", "1", "2", "3", "4", "5", "6", "7", "8", "9", "A", "B",
    "C", "D", "E", "F", "G", "H", "I", "J", "K", "L", "M", "N", "O",
    "P", "Q", "R", "S", "T", "U", "V", "W", "X", "Y", "Z", "_", "a",
    "b", "c", "d", "e", "f", "g", "h", "i", "j", "k", "l", "m", "n",
    "o", "p", "q", "r", "s", "t", "u", "v", "w", "x", "y", "z">>

UpperChars ==
  <<"A", "B", "C", "D", "E", "F", "G", "H", "I", "J", "K", "L", "M",
    "N", "O", "P", "Q", "R", "S", "T", "U", "V", "W", "X", "Y", "Z">>
LowerChars ==
  <<"a", "b", "c", "d", "e", "f", "g", "h", "i", "j", "k", "l", "m",
    "n", "o", "p", "q", "r", "s", "t", "u", "v", "w", "x", "y", "z">>

Ord(c) == CHOOSE i \in 1..Len(Alphabet) : Alphabet[i] = c

LowerChar(c) ==
  IF \E i \in 1..Len(UpperChars) : UpperChars[i] = c
  THEN LowerChars[CHOOSE i \in 1..Len(UpperChars) : UpperChars[i] = c]
  ELSE c

\* str.lower()
Lower(s) == [i \in 1..Len(s) |-> LowerChar(s[i])]

\* s < t for Python strings (code point order, a proper prefix is smaller)
StrLess(s, t) ==
  \E k \in 1..(Len(t)) :
     /\ \A i \in 1..(k - 1) : i <= Len(s) /\ s[i] = t[i]
     /\ \/ k = Len(s) + 1
        \/ k <= Len(s) /\ Ord(s[k]) < Ord(t[k])

IsStr(x) == x # None /\ x # IntVal
\* truthiness of a parameter value: None and "" are false
Truthy(x) == x # None /\ x # << >>

InSeq(x, seq) == \E i \in 1..Len(seq) : seq[i] = x

\* ------------------------------------------------------------------------
\* difflib.SequenceMatcher (no junk: autojunk only acts on 200+ elements)
\* ------------------------------------------------------------------------
Min2(x, y) == IF x <= y THEN x ELSE y
Max2(x, y) == IF x >= y THEN x ELSE y

\* length of the common run of a and b starting at a[i], b[j], inside
\* a[..ahi], b[..bhi]
RECURSIVE RunLen(_, _, _, _, _, _)
RunLen(a, b, i, j, ahi, bhi) ==
  IF i > ahi \/ j > bhi \/ a[i] # b[j] THEN 0
  ELSE 1 + RunLen(a, b, i + 1, j + 1, ahi, bhi)

\* the largest value of the table K
MaxRun(K) == CHOOSE k \in {K[p] : p \in DOMAIN K} : \A q \in DOMAIN K : K[q] <= k

\* of the pairs L the one with the least first and then the least second
\* component
FirstPair(L) ==
  CHOOSE p \in L : \A q \in L : p[1] < q[1] \/ (p[1] = q[1] /\ p[2] <= q[2])

Block(p, k) == [i |-> p[1], j |-> p[2], k |-> k]

BlockOf(K, kmax) == Block(FirstPair({p \in DOMAIN K : K[p] = kmax}), kmax)

LongestIn(K) == BlockOf(K, MaxRun(K))

\* find_longest_match(alo, ahi, blo, bhi): the longest block; of those the
\* one that starts earliest in a, and of those the earliest in b
LongestMatch(a, b, alo, ahi, blo, bhi) ==
  LongestIn([p \in (alo..ahi) \X (blo..bhi) |-> RunLen(a, b, p[1], p[2], ahi, bhi)])

\* sum of the sizes of get_matching_blocks(): the longest block m, and the
\* blocks to its left and to its right
RECURSIVE MatchCount(_, _, _, _, _, _)
RECURSIVE AroundBlock(_, _, _, _, _, _, _)
AroundBlock(a, b, alo, ahi, blo, bhi, m) ==
  IF m.k = 0 THEN 0
  ELSE m.k
       + MatchCount(a, b, alo, m.i - 1, blo, m.j - 1)
       + MatchCount(a, b, m.i + m.k, ahi, m.j + m.k, bhi)

MatchCount(a, b, alo, ahi, blo, bhi) ==
  IF alo > ahi \/ blo > bhi THEN 0
  ELSE AroundBlock(a, b, alo, ahi, blo, bhi, LongestMatch(a, b, alo, ahi, blo, bhi))

Matches(a, b) == MatchCount(a, b, 1, Len(a), 1, Len(b))

\* SequenceMatcher.ratio() >= 0.8, i.e. 2.0*M/T >= 0.8 (T = 0 gives 1.0)
FuzzyCutoffNum == 4
FuzzyCutoffDen == 5
PassesCutoff(a, b) ==
  LET T == Len(a) + Len(b)
  IN  IF T = 0 THEN TRUE
      ELSE FuzzyCutoffDen * 2 * Matches(a, b) >= FuzzyCutoffNum * T

\* ratio(x, w) < ratio(y, w) as a comparison of fractions
RatioLess(x, y, w) ==
  LET Tx == Len(x) + Len(w)
      Ty == Len(y) + Len(w)
      Mx == IF Tx = 0 THEN 1 ELSE 2 * Matches(x, w)
      My == IF Ty = 0 THEN 1 ELSE 2 * Matches(y, w)
      Dx == IF Tx = 0 THEN 1 ELSE Tx
      Dy == IF Ty = 0 THEN 1 ELSE Ty
  IN  Mx * Dy < My * Dx

\* (score of x, x) <= (score of y, y), the scores being the ratios to word
ScoreLeq(x, y, word) ==
  \/ RatioLess(x, y, word)
  \/ /\ ~RatioLess(y, x, word)
     /\ (x = y \/ StrLess(x, y))

\* heapq.nlargest(1, result): the largest (score, x) pair of the candidates
Largest(cand, cols, word) ==
  IF cand = {} THEN << >>
  ELSE <<cols[CHOOSE i \in cand : \A j \in cand : ScoreLeq(cols[j], cols[i], word)]>>

\* difflib.get_close_matches(word, possibilities, n=1, cutoff=0.8):
\* heapq.nlargest(1, [(score, x)]) is the largest (score, x) pair, so equal
\* scores are ordered by the strings themselves
get_close_matches(word, cols) ==
  Largest({i \in 1..Len(cols) : PassesCutoff(cols[i], word)}, cols, word)

\* ------------------------------------------------------------------------
\* aliases.py
\* ------------------------------------------------------------------------
s_profit == <<"p", "r", "o", "f", "i", "t">>
s_revenue_diff == <<"r", "e", "v", "e", "n", "u", "e", "_", "d", "i", "f", "f">>
s_sales == <<"s", "a", "l", "e", "s">>
s_revenue == <<"r", "e", "v", "e", "n", "u", "e">>
s_rev == <<"r", "e", "v">>
s_qty == <<"q", "t", "y">>
s_quantity == <<"q", "u", "a", "n", "t", "i", "t", "y">>
s_count == <<"c", "o", "u", "n", "t">>
s_cat == <<"c", "a", "t">>
s_category == <<"c", "a", "t", "e", "g", "o", "r", "y">>
s_dept == <<"d", "e", "p", "t">>
s_department == <<"d", "e", "p", "a", "r", "t", "m", "e", "n", "t">>
s_seg == <<"s", "e", "g">>
s_segment == <<"s", "e", "g", "m", "e", "n", "t">>

ALIASES ==
  { <<s_profit, s_revenue_diff>>, <<s_sales, s_revenue>>, <<s_rev, s_revenue>>,
    <<s_qty, s_quantity>>, <<s_count, s_quantity>>, <<s_cat, s_category>>,
    <<s_dept, s_department>>, <<s_seg, s_segment>> }

\* ALIASES.get(key)
AliasGet(key) ==
  IF \E e \in ALIASES : e[1] = key
  THEN (CHOOSE e \in ALIASES : e[1] = key)[2]
  ELSE None

\* m[0] if m else None
FirstOrNone(m) == IF m # << >> THEN m[1] ELSE None

\* aliases.resolve_column(name, columns), for a string or None
resolve_column(name, cols) ==
  IF ~Truthy(name) THEN None
  ELSE IF InSeq(name, cols) THEN name
  ELSE LET alias == AliasGet(Lower(name))
       IN  IF Truthy(alias) /\ InSeq(alias, cols) THEN alias
           ELSE FirstOrNone(get_close_matches(name, cols))


\* ------------------------------------------------------------------------
\* main.py: router helpers of _events
\* ------------------------------------------------------------------------
\* A question is the sequence of its maximal runs of word characters, in
\* order; a comma is kept as the token <<",">>.
Comma == <<",">>

w_describe == <<"d", "e", "s", "c", "r", "i", "b", "e">>
w_summary == <<"s", "u", "m", "m", "a", "r", "y">>
w_summarize == <<"s", "u", "m", "m", "a", "r", "i", "z", "e">>
w_overview == <<"o", "v", "e", "r", "v", "i", "e", "w">>
w_stats == <<"s", "t", "a", "t", "s">>
w_schema == <<"s", "c", "h", "e", "m", "a">>
w_fields == <<"f", "i", "e", "l", "d", "s">>
w_by == <<"b", "y">>
w_per == <<"p", "e", "r">>
w_avg == <<"a", "v", "g">>
w_average == <<"a", "v", "e", "r", "a", "g", "e">>
w_mean == <<"m", "e", "a", "n">>
w_and == <<"a", "n", "d">>
w_int == <<"i", "n", "t">>
w_float == <<"f", "l", "o", "a", "t">>
w_number == <<"n", "u", "m", "b", "e", "r">>
w_numeric == <<"n", "u", "m", "e", "r", "i", "c">>
w_double == <<"d", "o", "u", "b", "l", "e">>
w_decimal == <<"d", "e", "c", "i", "m", "a", "l">>

\* re.findall(r"[a-zA-Z0-9_]+", q.lower())
WordTokens(q) == SelectSeq([i \in 1..Len(q) |-> Lower(q[i])], LAMBDA t : t # Comma)

\* re.search(rf"\b{tok}\b", q.lower()) for a token made of word characters
HasWord(q, tok) == InSeq(tok, WordTokens(q))

DescribeLexicon ==
  {w_describe, w_summary, w_summarize, w_overview, w_stats, w_schema, w_fields}

\* the pattern with "per" left out of the alternation
HasGrouping_OnlyBy(q) == HasWord(q, w_by)

\* re.search(r"\b(by|per)\b", ql)
HasGrouping(q) == HasWord(q, w_by) \/ HasWord(q, w_per)

_is_describe_like(q) ==
  IF q = << >> THEN FALSE
  ELSE (\E tok \in DescribeLexicon : HasWord(q, tok)) /\ ~HasGrouping(q)

\* sub in s
Contains(s, sub) ==
  \E i \in 0..(Len(s) - Len(sub)) : \A k \in 1..Len(sub) : s[i + k] = sub[k]

NumericMarks == {w_int, w_float, w_number, w_numeric, w_double, w_decimal}

\* the dtype of a column in the payload's columns schema ("" when absent)
DtypeOf(cols_schema, col) ==
  IF col \in DOMAIN cols_schema THEN Lower(cols_schema[col]) ELSE << >>

_is_multi_metric_request(q, col_names, cols_schema) ==
  IF q = << >> THEN FALSE
  ELSE
    LET pattern_avg == HasWord(q, w_avg) \/ HasWord(q, w_average) \/ HasWord(q, w_mean)
        pattern_multi == HasWord(q, w_and) \/ InSeq(Comma, q)
        pattern_group == HasGrouping(q)
        toks == WordTokens(q)
        hits == {resolve_column(toks[i], col_names) : i \in 1..Len(toks)} \ {None}
        resolved == {c \in hits :
                       \/ DtypeOf(cols_schema, c) = << >>
                       \/ \E k \in NumericMarks : Contains(DtypeOf(cols_schema, c), k)}
    IN  \/ pattern_avg /\ pattern_multi /\ pattern_group
        \/ Cardinality(resolved) >= 2 /\ pattern_group

\* name_map.get(str(raw_intent), str(raw_intent).upper())
name_map ==
  [ run_aggregation |-> "AGGREGATE", run_variance |-> "VARIANCE",
    run_filter_and_sort |-> "FILTER_SORT", run_describe |-> "DESCRIBE",
    filter_rows |-> "FILTER", sort_rows |-> "SORT",
    value_counts |-> "VALUE_COUNTS", top_n_per_group |-> "TOP_N_PER_GROUP",
    pivot_table |-> "PIVOT", percentile |-> "PERCENTILE",
    outliers |-> "OUTLIERS", sum_column |-> "SUM_COLUMN" ]

\* str.upper() on the intent names that are not tool names
UpperIntent ==
  [ UNKNOWN |-> "UNKNOWN", describe |-> "DESCRIBE", Describe |-> "DESCRIBE",
    aggregate |-> "AGGREGATE", smalltalk |-> "SMALLTALK" ]

Canonical(raw_intent) ==
  IF raw_intent \in DOMAIN name_map THEN name_map[raw_intent]
  ELSE UpperIntent[raw_intent]

KnownIntents ==
  {"AGGREGATE", "VARIANCE", "FILTER_SORT", "DESCRIBE", "FILTER", "SORT",
   "VALUE_COUNTS", "TOP_N_PER_GROUP", "PIVOT", "PERCENTILE", "OUTLIERS",
   "SUM_COLUMN"}

\* p.get(k)
Get(p, k) == IF k \in DOMAIN p THEN p[k] ELSE None

Raise == <<"raise">>

\* _smart_resolve_column(name, cols); Raise stands for the AttributeError of
\* name.lower() on a value that is not a string
_smart_resolve_column(name, cols) ==
  IF ~Truthy(name) THEN None
  ELSE IF InSeq(name, cols) THEN name
  ELSE IF ~IsStr(name) THEN Raise
  ELSE IF \E i \in 1..Len(cols) : Lower(cols[i]) = Lower(name)
       THEN cols[CHOOSE i \in 1..Len(cols) :
                   /\ Lower(cols[i]) = Lower(name)
                   /\ \A j \in 1..(i - 1) : Lower(cols[j]) # Lower(name)]
       ELSE resolve_column(name, cols)

\* resolved[k] = _smart_resolve_column(p.get(k), column_names) or p.get(k)
OrElse(r, v) == IF Truthy(r) THEN r ELSE v
ResolvedValue(v, cols) == OrElse(_smart_resolve_column(v, cols), v)

\* the assignments resolved[k] = ... for the keys in order, up to the first
\* one that raises
RECURSIVE ResolveKeys(_, _, _, _)
RECURSIVE AssignKey(_, _, _, _, _)
\* resolved[Head(keys)] = r or p.get(Head(keys)), unless the resolver raised
AssignKey(resolved, p, keys, cols, r) ==
  IF r = Raise THEN [ok |-> FALSE, resolved |-> resolved]
  ELSE ResolveKeys([x \in (DOMAIN resolved) \cup {Head(keys)} |->
                      IF x = Head(keys) THEN OrElse(r, Get(p, Head(keys))) ELSE resolved[x]],
                   p, Tail(keys), cols)

ResolveKeys(resolved, p, keys, cols) ==
  IF keys = << >> THEN [ok |-> TRUE, resolved |-> resolved]
  ELSE AssignKey(resolved, p, keys, cols,
                 _smart_resolve_column(Get(p, Head(keys)), cols))

\* the column-valued keys that _validate_and_resolve resolves for an intent
ColumnKeys(i, p) ==
  CASE i = "AGGREGATE" -> <<"dimension", "metric">>
    [] i = "VARIANCE" -> <<"dimension", "period_a", "period_b">>
    [] i = "FILTER_SORT" ->
         IF Truthy(Get(p, "filter_col")) THEN <<"sort_col", "filter_col">>
         ELSE <<"sort_col">>
    [] i = "SORT" -> <<"sort_by_column">>
    [] i = "VALUE_COUNTS" -> <<"column">>
    [] i = "TOP_N_PER_GROUP" -> <<"group_by_column", "metric_column">>
    [] i = "PIVOT" -> <<"index", "columns", "values">>
    [] i = "PERCENTILE" -> <<"column">>
    [] i = "OUTLIERS" -> <<"column">>
    [] i = "SUM_COLUMN" -> <<"column">>
    [] OTHER -> << >>

\* the keys whose resolved value must be truthy for params_ok
RequiredKeys(i) ==
  CASE i = "FILTER_SORT" -> <<"sort_col">>
    [] OTHER -> ColumnKeys(i, << >>)

\* the return value for an intent with column parameters, r being the
\* assignments made before the return statement
ParamsOutcome(i, p, r) ==
  [ok |-> /\ r.ok
          /\ \A n \in 1..Len(RequiredKeys(i)) : Truthy(Get(r.resolved, RequiredKeys(i)[n]))
          /\ CASE i = "AGGREGATE" -> Truthy(Get(p.params, "func"))
               [] i = "PERCENTILE" -> "p" \in DOMAIN p.params
               [] OTHER -> TRUE,
   params |-> r.resolved, filters |-> p.filters]

\* the return value for FILTER: bool(flist), resolved
FilterOutcome(p, flist) == [ok |-> flist # << >>, params |-> p.params, filters |-> flist]

\* _validate_and_resolve(i, p) -> (params_ok, resolved); p.params are the
\* scalar parameters, p.filters the column of each entry of p["filters"]
_validate_and_resolve(i, p, cols) ==
  IF i = "DESCRIBE" THEN [ok |-> TRUE, params |-> p.params, filters |-> p.filters]
  ELSE IF i = "FILTER" THEN
    IF \E n \in 1..Len(p.filters) : _smart_resolve_column(p.filters[n], cols) = Raise
    THEN [ok |-> FALSE, params |-> p.params, filters |-> p.filters]
    ELSE FilterOutcome(p, [n \in 1..Len(p.filters) |-> ResolvedValue(p.filters[n], cols)])
  ELSE IF i \in KnownIntents THEN
    ParamsOutcome(i, p, ResolveKeys(p.params, p.params, ColumnKeys(i, p.params), cols))
  ELSE [ok |-> FALSE, params |-> p.params, filters |-> p.filters]

\* MIN_FASTPATH_CONFIDENCE and confidences are in hundredths. The thresholds
\* t for which the double t - 0.10 is larger than the decimal value, so
\* that a confidence of exactly t - 0.10 compares below it:
SoftRoundsUp ==
  {14, 28, 34, 39, 40, 51, 52, 53, 54, 55, 56, 67, 68, 79, 80, 81, 92, 93}
SoftMargin == 10

\* confidence >= soft_threshold, soft_threshold = max(0.0, MIN - 0.10)
GeSoft(confidence, min_conf) ==
  IF min_conf <= SoftMargin THEN confidence >= 0
  ELSE IF min_conf \in SoftRoundsUp THEN confidence > min_conf - SoftMargin
  ELSE confidence >= min_conf - SoftMargin

ConfidenceOk(confidence, min_conf) ==
  confidence >= min_conf \/ GeSoft(confidence, min_conf)

\* is_fastpath_candidate, lines 446-488
IsFastpathCandidate(intent, params_ok, confidence, min_conf, q, col_names, cols_schema) ==
  IF intent = "DESCRIBE"
  THEN params_ok /\ _is_describe_like(q) /\ ConfidenceOk(confidence, min_conf)
  ELSE IF intent \in {"AGGREGATE", "VARIANCE", "FILTER_SORT"}
  THEN IF intent = "AGGREGATE" /\ _is_multi_metric_request(q, col_names, cols_schema)
       THEN FALSE
       ELSE params_ok /\ ConfidenceOk(confidence, min_conf)
  ELSE IF intent \in {"FILTER", "SORT", "VALUE_COUNTS", "TOP_N_PER_GROUP",
                      "PIVOT", "PERCENTILE", "OUTLIERS", "SUM_COLUMN"}
  THEN params_ok /\ ConfidenceOk(confidence, min_conf)
  ELSE FALSE


\* ------------------------------------------------------------------------
\* sandbox_runner.py: the static validator
\* ------------------------------------------------------------------------
\* A syntax tree node: t is the node class, id the identifier (Name.id,
\* Attribute.attr, FunctionDef.name), mods the dotted module names of an
\* import (each a sequence of its parts), params the positional parameter
\* names of a function, kids the child nodes in generic_visit order (for a
\* Call, kids[1] is func).
Node(t, id, mods, params, kids) ==
  [t |-> t, id |-> id, mods |-> mods, params |-> params, kids |-> kids]

NameN(id) == Node("Name", id, << >>, << >>, << >>)
AttrN(value, attr) == Node("Attribute", attr, << >>, << >>, <<value>>)
CallN(func, args) == Node("Call", << >>, << >>, << >>, <<func>> \o args)
ImportN(mods) == Node("Import", << >>, mods, << >>, << >>)
ImportFromN(mod) == Node("ImportFrom", << >>, <<mod>>, << >>, << >>)
ForN(body) == Node("For", << >>, << >>, << >>, body)
WhileN(body) == Node("While", << >>, << >>, << >>, body)
StmtN(kids) == Node("Stmt", << >>, << >>, << >>, kids)
DefN(name, params, body) == Node("FunctionDef", name, << >>, params, body)

ALLOWED_IMPORTS_BASE == {"pandas", "numpy", "math", "json"}
ALLOWED_IMPORTS_RICH ==
  {"matplotlib", "seaborn", "statistics", "io", "itertools", "functools",
   "collections", "re", "datetime", "base64"}

\* ALLOWED_IMPORTS for a SANDBOX_MODE
ALLOWED_IMPORTS(mode) ==
  IF mode \in {"rich", "extended"}
  THEN ALLOWED_IMPORTS_BASE \cup ALLOWED_IMPORTS_RICH
  ELSE ALLOWED_IMPORTS_BASE

FORBIDDEN_NAMES_NoEval ==
  {<<"e", "x", "e", "c">>, <<"c", "o", "m", "p", "i", "l", "e">>, <<"o", "p", "e", "n">>, <<"_", "_", "i", "m", "p", "o", "r", "t", "_", "_">>, <<"g", "l", "o", "b", "a", "l", "s">>, <<"l", "o", "c", "a", "l", "s">>, <<"i", "n", "p", "u", "t">>}

FORBIDDEN_NAMES ==
  {<<"e", "x", "e", "c">>, <<"e", "v", "a", "l">>, <<"c", "o", "m", "p", "i", "l", "e">>, <<"o", "p", "e", "n">>, <<"_", "_", "i", "m", "p", "o", "r", "t", "_", "_">>, <<"g", "l", "o", "b", "a", "l", "s">>, <<"l", "o", "c", "a", "l", "s">>, <<"i", "n", "p", "u", "t">>}

FORBIDDEN_MODULE_PREFIXES ==
  {"os", "sys", "subprocess", "socket", "asyncio", "multiprocessing",
   "threading", "ctypes", "pathlib", "importlib", "pdb", "pickle", "dill",
   "requests", "urllib"}

MAX_IMPORTS == 12
MAX_LOOP_DEPTH == 4

\* s.startswith("__") and s.endswith("__")
IsDunder(s) ==
  /\ Len(s) >= 2
  /\ s[1] = "_" /\ s[2] = "_"
  /\ s[Len(s) - 1] = "_" /\ s[Len(s)] = "_"

\* (alias.name or "").split(".")[0]
Root(mod) == IF mod = << >> THEN "" ELSE mod[1]

Msg(kind, arg) == [kind |-> kind, arg |-> arg, num |-> 0]
MsgN(kind, n) == [kind |-> kind, arg |-> << >>, num |-> n]

\* the errors a visit_* method appends for the node itself
NodeErrors(n, allowlist) ==
  CASE n.t = "Import" ->
         LET Per(m) ==
               (IF Root(m) \notin allowlist
                THEN <<Msg("Import not allowed", m)>> ELSE << >>)
               \o (IF Root(m) \in FORBIDDEN_MODULE_PREFIXES
                   THEN <<Msg("Forbidden import", m)>> ELSE << >>)
             F[i \in 0..Len(n.mods)] ==
               IF i = 0 THEN << >> ELSE F[i - 1] \o Per(n.mods[i])
         IN  F[Len(n.mods)]
    [] n.t = "ImportFrom" ->
         (IF Root(n.mods[1]) \notin allowlist
          THEN <<Msg("Import from not allowed", n.mods[1])>> ELSE << >>)
         \o (IF Root(n.mods[1]) \in FORBIDDEN_MODULE_PREFIXES
             THEN <<Msg("Forbidden import from", n.mods[1])>> ELSE << >>)
    [] n.t = "Call" ->
         IF n.kids[1].t = "Name" /\ n.kids[1].id \in FORBIDDEN_NAMES
         THEN <<Msg("Forbidden call", n.kids[1].id)>> ELSE << >>
    [] n.t = "Attribute" ->
         IF IsDunder(n.id)
         THEN <<Msg("Use of dunder attributes is not allowed", << >>)>> ELSE << >>
    [] n.t = "Name" ->
         IF IsDunder(n.id)
         THEN <<Msg("Use of dunder names is not allowed", << >>)>> ELSE << >>
    [] OTHER -> << >>

IsLoop(n) == n.t \in {"For", "While"}

\* what two visits in a row have collected
Collected(x, y) ==
  [errors |-> x.errors \o y.errors,
   warnings |-> x.warnings \o y.warnings,
   imports |-> x.imports + y.imports]

\* _Validator.visit(node) with loop_depth = depth on entry: the errors and
\* warnings appended and the imports counted, in visit order
RECURSIVE Visit(_, _, _)
Visit(n, depth, allowlist) ==
  LET d == IF IsLoop(n) THEN depth + 1 ELSE depth
      own == [errors |-> NodeErrors(n, allowlist),
              warnings |-> IF IsLoop(n) /\ d > MAX_LOOP_DEPTH
                           THEN <<MsgN("Deeply nested loop detected", d)>> ELSE << >>,
              imports |-> IF n.t \in {"Import", "ImportFrom"} THEN 1 ELSE 0]
      F[i \in 0..Len(n.kids)] ==
        IF i = 0 THEN own
        ELSE Collected(F[i - 1], Visit(n.kids[i], d, allowlist))
  IN  F[Len(n.kids)]

Report(ok, errors, warnings) == [ok |-> ok, errors |-> errors, warnings |-> warnings]

\* the loop over tree.body of lines 159-165
has_run_func(tree) ==
  \E i \in 1..Len(tree.kids) :
     LET node == tree.kids[i]
     IN  /\ node.t = "FunctionDef"
         /\ node.id = <<"r", "u", "n">>
         /\ Len(node.params) >= 2
         /\ node.params[1] = <<"d", "f">>
         /\ node.params[2] = <<"c", "t", "x">>

\* lines 172-179: the import count warning and the return value, v being
\* what the visit collected
Verdict(v) ==
  Report(Len(v.errors) = 0, v.errors,
         IF v.imports > MAX_IMPORTS
         THEN v.warnings \o <<MsgN("Too many imports", v.imports)>>
         ELSE v.warnings)

\* validate_code(code, allowlist) under a SANDBOX_MODE; allowlist {} stands
\* for None and for an empty collection. A code string is a record: empty
\* (the string ""), parses (ast.parse succeeds), tree.
validate_code_allow(code, allowlist, mode) ==
  IF code.empty THEN Report(FALSE, <<Msg("Empty or invalid code string.", << >>)>>, << >>)
  ELSE IF ~code.parses THEN Report(FALSE, <<Msg("SyntaxError", << >>)>>, << >>)
  ELSE IF ~has_run_func(code.tree)
  THEN Report(FALSE, <<Msg("Missing required function: def run(df, ctx):", << >>)>>, << >>)
  ELSE Verdict(Visit(code.tree, 0,
                     IF allowlist # {} THEN allowlist ELSE ALLOWED_IMPORTS(mode)))

\* validate_code(code), as the dispatcher and the worker call it
validate_code(code, mode) == validate_code_allow(code, {}, mode)

\* ------------------------------------------------------------------------
\* Code strings of the model: what the generator and the repair call may
\* return.  Source(id) is the parsed form of the string named id.
\* ------------------------------------------------------------------------
Module(body) == Node("Module", << >>, << >>, << >>, body)
Code(empty, parses, body) == [empty |-> empty, parses |-> parses, tree |-> Module(body)]

\* df.head()
DfHead == CallN(AttrN(NameN(<<"d", "f">>), <<"h", "e", "a", "d">>), << >>)
RunDef(body) == DefN(<<"r", "u", "n">>, <<<<"d", "f">>, <<"c", "t", "x">>>>, body)
RECURSIVE Nest(_, _)
Nest(k, inner) == IF k = 0 THEN inner ELSE <<ForN(Nest(k - 1, inner))>>

Source(id) ==
  CASE id = "" -> Code(TRUE, FALSE, << >>)
    \* import pandas / def run(df, ctx): return df.head()
    [] id = "good" -> Code(FALSE, TRUE, <<ImportN(<< <<"pandas">> >>), RunDef(<<StmtN(<<DfHead>>)>>)>>)
    \* as good, with five nested loops around the body
    [] id = "good_loops" -> Code(FALSE, TRUE, <<RunDef(Nest(MAX_LOOP_DEPTH + 1, <<StmtN(<<DfHead>>)>>))>>)
    \* a second valid program, e.g. a repaired one
    [] id = "good2" -> Code(FALSE, TRUE, <<ImportN(<< <<"numpy">> >>), RunDef(<<StmtN(<<DfHead>>)>>)>>)
    \* import os.path / def run(df, ctx): ...
    [] id = "import_os" -> Code(FALSE, TRUE, <<ImportN(<< <<"os", "path">> >>), RunDef(<<StmtN(<<DfHead>>)>>)>>)
    \* from seaborn import heatmap: allowed in rich mode only
    [] id = "from_seaborn" -> Code(FALSE, TRUE, <<ImportFromN(<<"seaborn">>), RunDef(<<StmtN(<<DfHead>>)>>)>>)
    \* def run(df, ctx): return eval("df")
    [] id = "calls_eval" -> Code(FALSE, TRUE, <<RunDef(<<StmtN(<<CallN(NameN(<<"e", "v", "a", "l">>), << >>)>>)>>)>>)
    \* def run(df, ctx): return df.__class__
    [] id = "dunder" -> Code(FALSE, TRUE, <<RunDef(<<StmtN(<<AttrN(NameN(<<"d", "f">>), <<"_", "_", "c", "l", "a", "s", "s", "_", "_">>)>>)>>)>>)
    \* def main(df): return df.head()
    [] id = "no_entry" -> Code(FALSE, TRUE, <<DefN(<<"m", "a", "i", "n">>, <<<<"d", "f">>>>, <<StmtN(<<DfHead>>)>>)>>)
    \* def run(df, ctx) return df
    [] id = "syntax_error" -> Code(FALSE, FALSE, << >>)

AllPrograms ==
  {"", "good", "good_loops", "good2", "import_os", "from_seaborn",
   "calls_eval", "dunder", "no_entry", "syntax_error"}


\* ------------------------------------------------------------------------
\* main.py: _events, the dispatcher
\* ------------------------------------------------------------------------
VARIABLES
  pc,                \* the position of the generator _events
  events,            \* the events yielded so far
  env,               \* the request's dataset metadata and the configuration
  asked,             \* the question as submitted by the user
  question,          \* the local variable question
  classification,    \* the classifier's answer
  routed,            \* intent, params_ok, resolved_params, is_fastpath_candidate
  attempt,           \* the generation loop counter
  remaining,         \* the remaining seconds of the current polling loop
  code, is_valid, validation_errors, warnings,
  tried_repair,
  result,            \* the worker's answer
  valLog,            \* the dispatcher's calls of validate_code: code and verdict
  runs,              \* the worker subprocesses launched: code and ctx
  genCalls,          \* the questions passed to generate_code_and_summary
  genLog,            \* how each generation attempt ended
  repairCalls,       \* the arguments passed to repair_code
  hist,              \* what has happened in this request
  arg,               \* the argument of a function called on its own
  ret                \* and what the function returned

vars ==
  <<pc, events, env, asked, question, classification, routed, attempt,
    remaining, code, is_valid, validation_errors, warnings, tried_repair,
    result, valLog, runs, genCalls, genLog, repairCalls, hist, arg, ret>>

\* configuration values read from the environment (config.py)
CLASSIFIER_TIMEOUT_SECONDS == ClassifierTimeoutBound
CODEGEN_TIMEOUT_SECONDS == CodegenTimeoutBound
PollSlice == 2
\* a generation budget of one more attempt
max_retries_OneMore == 2 + 1
max_retries == 2
FORCE_FALLBACK_MIN_ROWS == 500000
FASTPATH_ENABLED == TRUE
CODE_RECONSTRUCT_ENABLED == TRUE

Ev(type, detail, text) == [type |-> type, detail |-> detail, text |-> text]
ErrorEv(c) == Ev("error", c, "")

\* classification None, or a dict without usable fields
NoClassification == [intent |-> "", params |-> << >>, filters |-> << >>, confidence |-> 0]
UnknownClassification == [intent |-> "UNKNOWN", params |-> << >>, filters |-> << >>, confidence |-> 0]
NotRouted ==
  [intent |-> "", params_ok |-> FALSE, resolved_params |-> << >>,
   resolved_filters |-> << >>, confidence |-> 0, is_fastpath_candidate |-> FALSE]
NoResult == [error |-> FALSE, table_is_list |-> TRUE]
NoHist ==
  [classifier_failed |-> FALSE, fastpath_raised |-> FALSE, show_code |-> FALSE,
   fastpath_result |-> FALSE, repaired |-> "-", persisted_code |-> "-"]

\* the local variable question: the text of the user's question and, in
\* front of it, the failure descriptions the generation loop has added
\* (the latest one first)
Q(fb, text) == [fb |-> fb, text |-> text]

\* ---- strings of the scenarios ----
s_region == <<"r", "e", "g", "i", "o", "n">>
s_Cost == <<"C", "o", "s", "t">>
s_cost == <<"c", "o", "s", "t">>
s_revenu == <<"r", "e", "v", "e", "n", "u">>
s_zzz == <<"z", "z", "z">>
s_total == <<"t", "o", "t", "a", "l">>
s_sum == <<"s", "u", "m">>
s_p90 == <<"9", "0">>
s_Describe == <<"D", "e", "s", "c", "r", "i", "b", "e">>
s_nearby == <<"n", "e", "a", "r", "b", "y">>
s_stores == <<"s", "t", "o", "r", "e", "s">>
s_PER == <<"P", "E", "R">>
s_integer == <<"i", "n", "t", "e", "g", "e", "r">>
s_text == <<"t", "e", "x", "t">>

Q_total_by == <<s_total, s_revenue, w_by, s_region>>
Q_describe == <<s_Describe, s_revenue>>
Q_describe_by == <<s_Describe, s_revenue, w_by, s_region>>
Q_summary_per == <<w_summary, s_PER, s_region>>
Q_stats_nearby == <<w_stats, s_nearby, s_stores>>
Q_avg_and == <<w_average, s_revenue, w_and, s_cost, w_per, s_region>>
Q_total == <<s_total, s_revenue>>

Columns == <<s_region, s_revenue, s_Cost>>
TypedSchema ==
  [c \in {s_region, s_revenue, s_Cost} |->
     IF c = s_region THEN s_text ELSE s_integer]
UntypedSchema == << >>

Env(cols, schema, rows, minc, embed, logc, mode, fused) ==
  [column_names |-> cols, columns_schema |-> schema, dataset_rows |-> rows,
   MIN_FASTPATH_CONFIDENCE |-> minc, EMBED_ROUTER_ENABLED |-> embed,
   LOG_CLASSIFIER_RESPONSE |-> logc, SANDBOX_MODE |-> mode,
   GEMINI_FUSED |-> fused]

Cls(intent, params, filters, confidence) ==
  [intent |-> intent, params |-> params, filters |-> filters, confidence |-> confidence]

\* the state at the call of _events for one of the requests (env, question)
Locals(requests) ==
  /\ \E r \in requests : env = r[1] /\ asked = r[2]
  /\ question = Q(<< >>, asked)
  /\ routed = NotRouted
  /\ attempt = 0
  /\ remaining = 0
  /\ code = ""
  /\ is_valid = FALSE
  /\ validation_errors = <<Msg("Code generation failed.", << >>)>>
  /\ warnings = << >>
  /\ tried_repair = FALSE
  /\ result = NoResult
  /\ valLog = {}
  /\ runs = << >>
  /\ genCalls = << >>
  /\ genLog = << >>
  /\ repairCalls = << >>
  /\ hist = NoHist
  /\ arg = << >>
  /\ ret = << >>

\* the state in which a function of the service is called on its own, with
\* the inputs drawn from calls: no request is in progress
CalledWith(calls) ==
  /\ pc = "call"
  /\ events = << >>
  /\ classification = NoClassification
  /\ \E c \in calls :
        \E r \in {<<Env(<< >>, << >>, 0, 0, FALSE, FALSE, c.mode, FALSE), << >>>>} :
           /\ env = r[1] /\ asked = r[2]
           /\ arg = c
  /\ question = Q(<< >>, asked)
  /\ routed = NotRouted
  /\ attempt = 0
  /\ remaining = 0
  /\ code = ""
  /\ is_valid = FALSE
  /\ validation_errors = << >>
  /\ warnings = << >>
  /\ tried_repair = FALSE
  /\ result = NoResult
  /\ valLog = {}
  /\ runs = << >>
  /\ genCalls = << >>
  /\ genLog = << >>
  /\ repairCalls = << >>
  /\ hist = NoHist
  /\ ret = << >>

\* what a call on its own leaves alone
NoRequest ==
  UNCHANGED <<events, env, asked, question, classification, routed, attempt,
              remaining, code, is_valid, validation_errors, warnings,
              tried_repair, result, valLog, runs, genCalls, genLog, repairCalls,
              hist, arg>>

InitWith(requests) ==
  /\ pc = "start"
  /\ events = << >>
  /\ classification = NoClassification
  /\ Locals(requests)

Emit(evs) == events' = events \o evs

\* lines 129-144: received, then the payload metadata is read
Start ==
  /\ pc = "start"
  /\ \/ /\ Emit(<<Ev("received", "", "")>>)
        /\ pc' = IF CODE_RECONSTRUCT_ENABLED THEN "show_code" ELSE "dispatch"
     \/ /\ Emit(<<Ev("received", "", ""), ErrorEv("PAYLOAD_READ_FAILED")>>)
        /\ pc' = "end"
  /\ UNCHANGED <<env, asked, question, classification, routed, attempt,
                 remaining, code, is_valid, validation_errors, warnings,
                 tried_repair, result, valLog, runs, genCalls, genLog, repairCalls, hist, arg, ret>>

\* the show-me-the-code block going on to the dispatcher after its code event
ShowCode_Continues ==
  /\ pc = "show_code"
  /\ \/ /\ pc' = "dispatch"
        /\ UNCHANGED <<events, hist>>
     \/ /\ Emit(<<Ev("code", "presentation", "presentational")>>)
        /\ pc' = "dispatch"
        /\ hist' = [hist EXCEPT !.show_code = TRUE]
  /\ UNCHANGED <<env, asked, question, classification, routed, attempt,
                 remaining, code, is_valid, validation_errors, warnings,
                 tried_repair, result, valLog, runs, genCalls, genLog, repairCalls, arg, ret>>

\* lines 203-248: the show-me-the-code block
ShowCode ==
  /\ pc = "show_code"
  /\ \/ \* not a code request, or an exception anywhere in the block
        /\ pc' = "dispatch"
        /\ UNCHANGED <<events, hist>>
     \/ \E c \in {"NO_PREV_ANALYSIS", "NO_CONTEXT"} :
          /\ Emit(<<ErrorEv(c)>>)
          /\ pc' = "end"
          /\ hist' = [hist EXCEPT !.show_code = TRUE]
     \/ /\ Emit(<<Ev("code", "presentation", "presentational")>>)
        /\ pc' = "end"
        /\ hist' = [hist EXCEPT !.show_code = TRUE]
  /\ UNCHANGED <<env, asked, question, classification, routed, attempt,
                 remaining, code, is_valid, validation_errors, warnings,
                 tried_repair, result, valLog, runs, genCalls, genLog, repairCalls, arg, ret>>

\* line 251: the gate of the fast-path block
Dispatch ==
  /\ pc = "dispatch"
  /\ pc' = IF FASTPATH_ENABLED
              /\ (FORCE_FALLBACK_MIN_ROWS <= 0 \/ env.dataset_rows < FORCE_FALLBACK_MIN_ROWS)
           THEN (IF env.EMBED_ROUTER_ENABLED THEN "embed" ELSE "classify")
           ELSE "gen_start"
  /\ UNCHANGED <<events, env, asked, question, classification, routed, attempt,
                 remaining, code, is_valid, validation_errors, warnings,
                 tried_repair, result, valLog, runs, genCalls, genLog, repairCalls, hist, arg, ret>>

\* lines 260-309: the embedding router; it yields a classification only
\* when the guessed tool passes its threshold and the guards and the
\* restricted classifier call answers within 3 seconds
EmbedRoute(answers) ==
  /\ pc = "embed"
  /\ \E guess \in {"none", "run_describe", "run_aggregation", "sort_rows"}, passes \in BOOLEAN :
       LET passes_guards ==
             /\ ~(guess = "run_describe" /\ ~_is_describe_like(question.text))
             /\ ~(guess = "run_aggregation"
                  /\ _is_multi_metric_request(question.text, env.column_names, env.columns_schema))
       IN  \/ /\ guess # "none" /\ passes /\ passes_guards
              /\ \E c \in answers \cup {NoClassification} :
                   /\ classification' = c
                   /\ pc' = IF c = NoClassification THEN "classify" ELSE "route"
           \/ \* no guess, below the threshold, vetoed, timeout or exception
              /\ classification' = NoClassification
              /\ pc' = "classify"
  /\ UNCHANGED <<events, env, asked, question, routed, attempt,
                 remaining, code, is_valid, validation_errors, warnings,
                 tried_repair, result, valLog, runs, genCalls, genLog, repairCalls, hist, arg, ret>>

\* lines 311-322: the classifier call is submitted
ClassifySubmit ==
  /\ pc = "classify"
  /\ remaining' = CLASSIFIER_TIMEOUT_SECONDS
  /\ pc' = "classify_poll"
  /\ UNCHANGED <<events, env, asked, question, classification, routed, attempt,
                 code, is_valid, validation_errors, warnings,
                 tried_repair, result, valLog, runs, genCalls, genLog, repairCalls, hist, arg, ret>>

\* line 325: fut.result returns the classifier's answer
ClassifyReturn(answers) ==
  /\ pc = "classify_poll"
  /\ \E c \in answers : classification' = c
  /\ pc' = "route"
  /\ UNCHANGED <<events, env, asked, question, routed, attempt,
                 remaining, code, is_valid, validation_errors, warnings,
                 tried_repair, result, valLog, runs, genCalls, genLog, repairCalls, hist, arg, ret>>

\* lines 334-335: the classifier call raised
ClassifyRaise ==
  /\ pc = "classify_poll"
  /\ classification' = UnknownClassification
  /\ hist' = [hist EXCEPT !.classifier_failed = TRUE]
  /\ pc' = "route"
  /\ UNCHANGED <<events, env, asked, question, routed, attempt,
                 remaining, code, is_valid, validation_errors, warnings,
                 tried_repair, result, valLog, runs, genCalls, genLog, repairCalls, arg, ret>>

\* lines 327-331: a poll slice elapsed without an answer
ClassifyPollTimeout ==
  /\ pc = "classify_poll"
  /\ Emit(<<Ev("still_working", "", "")>>)
  /\ remaining' = remaining - PollSlice
  /\ pc' = IF remaining' <= 0 THEN "classify_join" ELSE "classify_poll"
  /\ UNCHANGED <<env, asked, question, classification, routed, attempt,
                 code, is_valid, validation_errors, warnings,
                 tried_repair, result, valLog, runs, genCalls, genLog, repairCalls, hist, arg, ret>>

\* a timeout handler that reports the timeout and ends the request
ClassifyJoin_Fatal ==
  /\ pc = "classify_join"
  /\ events' = events \o <<ErrorEv("CLASSIFIER_TIMEOUT")>>
  /\ hist' = [hist EXCEPT !.classifier_failed = TRUE]
  /\ pc' = "end"
  /\ UNCHANGED <<env, asked, question, classification, routed, attempt,
                 remaining, code, is_valid, validation_errors, warnings,
                 tried_repair, result, valLog, runs, genCalls, genLog, repairCalls, arg, ret>>

\* lines 313, 332-333: leaving the with block joins the executor's thread,
\* which happens when the classifier call ends; then the timeout handler runs
ClassifyJoin ==
  /\ pc = "classify_join"
  /\ classification' = UnknownClassification
  /\ hist' = [hist EXCEPT !.classifier_failed = TRUE]
  /\ pc' = "route"
  /\ UNCHANGED <<events, env, asked, question, routed, attempt,
                 remaining, code, is_valid, validation_errors, warnings,
                 tried_repair, result, valLog, runs, genCalls, genLog, repairCalls, arg, ret>>

\* the columns the fast path reads (compute_needed_cols, column pruning on)
compute_needed_cols(intent_name, rp, rfilters) ==
  LET keys == CASE intent_name = "FILTER_SORT" -> <<"sort_col", "filter_col">>
                [] OTHER -> ColumnKeys(intent_name, rp)
  IN  IF intent_name = "FILTER"
      THEN {rfilters[n] : n \in 1..Len(rfilters)} \ {None, << >>}
      ELSE {Get(rp, keys[n]) : n \in 1..Len(keys)} \ {None, << >>}

\* lines 337-523: canonical intent, parameter resolution, the acceptance
\* decision and the events that follow it
Route ==
  /\ pc = "route"
  /\ \E intent \in {Canonical(IF classification.intent = "" THEN "UNKNOWN"
                              ELSE classification.intent)} :
     \E vr \in {_validate_and_resolve(intent, classification, env.column_names)} :
     \E cand \in {IsFastpathCandidate(intent, vr.ok, classification.confidence,
                                      env.MIN_FASTPATH_CONFIDENCE, question.text,
                                      env.column_names, env.columns_schema)} :
     \E dbg \in {IF env.LOG_CLASSIFIER_RESPONSE
                 THEN <<Ev("classification_result", intent, "")>> ELSE << >>} :
         /\ routed' = [intent |-> intent, params_ok |-> vr.ok,
                       resolved_params |-> vr.params, resolved_filters |-> vr.filters,
                       confidence |-> classification.confidence,
                       is_fastpath_candidate |-> cand]
         /\ IF cand
            THEN /\ Emit(dbg \o <<Ev("generating_code", "", ""), Ev("running_fast", "", "")>>)
                 /\ pc' = "fp_download"
            ELSE /\ Emit(dbg)
                 /\ pc' = "gen_start"
  /\ UNCHANGED <<env, asked, question, classification, attempt,
                 remaining, code, is_valid, validation_errors, warnings,
                 tried_repair, result, valLog, runs, genCalls, genLog, repairCalls, hist, arg, ret>>


\* lines 524-529: the fast path downloads the table; a failure yields an
\* error event and control leaves the if block towards line 769
FastpathDownload ==
  /\ pc = "fp_download"
  /\ \/ /\ pc' = "fp_exec"
        /\ UNCHANGED <<events, hist>>
     \/ /\ Emit(<<ErrorEv("DATA_READ_FAILED")>>)
        /\ hist' = [hist EXCEPT !.fastpath_raised = TRUE]
        /\ pc' = "gen_start"
  /\ UNCHANGED <<env, asked, question, classification, routed, attempt,
                 remaining, code, is_valid, validation_errors, warnings,
                 tried_repair, result, valLog, runs, genCalls, genLog, repairCalls, arg, ret>>

\* _require_columns: every column the operation reads is in the table
NeededColumnsExist ==
  \A c \in compute_needed_cols(routed.intent, routed.resolved_params, routed.resolved_filters) :
     InSeq(c, env.column_names)

\* lines 531-677 and 753-767: the deterministic operation and the summary;
\* an exception yields fastpath_error and control goes on to line 769
FastpathExec ==
  /\ pc = "fp_exec"
  /\ \/ /\ NeededColumnsExist
        /\ Emit(<<Ev("persisting", "", "")>>)
        /\ hist' = [hist EXCEPT !.fastpath_result = TRUE]
        /\ pc' = "fp_persist"
     \/ /\ Emit(<<Ev("fastpath_error", "", "")>>)
        /\ hist' = [hist EXCEPT !.fastpath_raised = TRUE]
        /\ pc' = "gen_start"
  /\ UNCHANGED <<env, asked, question, classification, routed, attempt,
                 remaining, code, is_valid, validation_errors, warnings,
                 tried_repair, result, valLog, runs, genCalls, genLog, repairCalls, arg, ret>>

\* lines 687-752: the uploads, then done with strategy fastpath
FastpathPersist ==
  /\ pc = "fp_persist"
  /\ \/ Emit(<<Ev("done", "fastpath", "")>>)
     \/ Emit(<<ErrorEv("PERSIST_FAILED")>>)
  /\ pc' = "end"
  /\ UNCHANGED <<env, asked, question, classification, routed, attempt,
                 remaining, code, is_valid, validation_errors, warnings,
                 tried_repair, result, valLog, runs, genCalls, genLog, repairCalls, hist, arg, ret>>

\* lines 770-773
GenStart ==
  /\ pc = "gen_start"
  /\ Emit(<<Ev("generating_code", "", "")>>)
  /\ attempt' = 0
  /\ pc' = "gen_loop"
  /\ UNCHANGED <<env, asked, question, classification, routed,
                 remaining, code, is_valid, validation_errors, warnings,
                 tried_repair, result, valLog, runs, genCalls, genLog, repairCalls, hist, arg, ret>>

\* lines 774-779: the next iteration of the loop submits the generator call
GenSubmit ==
  /\ pc = "gen_loop"
  /\ attempt < max_retries
  /\ genCalls' = Append(genCalls, question)
  /\ remaining' = CODEGEN_TIMEOUT_SECONDS
  /\ pc' = "gen_poll"
  /\ UNCHANGED <<events, env, asked, question, classification, routed, attempt,
                 code, is_valid, validation_errors, warnings,
                 tried_repair, result, valLog, runs, genLog, repairCalls, hist, arg, ret>>

\* lines 794-798: the generator answered without an extractable code block,
\* which the fused generator does (gemini_client.py 289-291)
GenNoCode ==
  /\ pc = "gen_poll"
  /\ env.GEMINI_FUSED
  /\ validation_errors' = <<Msg("LLM did not return a valid code block.", << >>)>>
  /\ question' = Q(<<[kind |-> "attempt_failed", errors |-> validation_errors']>> \o question.fb,
                   question.text)
  /\ attempt' = attempt + 1
  /\ genLog' = Append(genLog, [kind |-> "no_code", code |-> "", error |-> ""])
  /\ pc' = "gen_loop"
  /\ UNCHANGED <<events, env, asked, classification, routed,
                 remaining, code, is_valid, warnings,
                 tried_repair, result, valLog, runs, genCalls, repairCalls, hist, arg, ret>>

\* lines 800-808: the generator answered with code, which is validated
GenCode(programs) ==
  /\ pc = "gen_poll"
  /\ \E raw_code \in programs \ {""} :
       \E rep \in {validate_code(Source(raw_code), env.SANDBOX_MODE)} :
           /\ valLog' = valLog \cup {[code |-> raw_code, ok |-> rep.ok]}
           /\ is_valid' = rep.ok
           /\ validation_errors' = rep.errors
           /\ warnings' = rep.warnings
           /\ genLog' = Append(genLog, [kind |-> IF rep.ok THEN "valid" ELSE "invalid",
                                        code |-> raw_code, error |-> ""])
           /\ IF rep.ok
              THEN /\ code' = raw_code
                   /\ pc' = "gen_check"
                   /\ UNCHANGED <<question, attempt>>
              ELSE /\ question' = Q(<<[kind |-> "validation_failed", errors |-> rep.errors]>>
                                      \o question.fb, question.text)
                   /\ attempt' = attempt + 1
                   /\ pc' = "gen_loop"
                   /\ UNCHANGED code
  /\ UNCHANGED <<events, env, asked, classification, routed,
                 remaining, tried_repair, result, runs, genCalls, repairCalls, hist, arg, ret>>

\* what generate_code_and_summary raises: the error of the model call in
\* either mode; without GEMINI_FUSED also the RuntimeError of
\* generate_analysis_code when the answer holds no code (gemini_client.py 82-86)
CODEGEN_FAILED == "CODEGEN_FAILED: Missing valid 'def run(df, ctx):' implementation."
GeneratorErrors(fused) ==
  IF fused THEN {"model call failed"} ELSE {"model call failed", CODEGEN_FAILED}

\* lines 820-821: the generator call raised
GenRaise ==
  /\ pc = "gen_poll"
  /\ validation_errors' = <<Msg("An unexpected error occurred during code generation", << >>)>>
  /\ attempt' = attempt + 1
  /\ \E e \in GeneratorErrors(env.GEMINI_FUSED) :
       genLog' = Append(genLog, [kind |-> "raised", code |-> "", error |-> e])
  /\ pc' = "gen_loop"
  /\ UNCHANGED <<events, env, asked, question, classification, routed,
                 remaining, code, is_valid, warnings,
                 tried_repair, result, valLog, runs, genCalls, repairCalls, hist, arg, ret>>

\* a keepalive that costs the budget less than the poll slice
GenPollTimeout_Cheaper ==
  /\ pc = "gen_poll"
  /\ Emit(<<Ev("still_working", "", "")>>)
  /\ remaining' = remaining - 1
  /\ pc' = IF remaining' <= 0 THEN "gen_join" ELSE "gen_poll"
  /\ UNCHANGED <<env, asked, question, classification, routed, attempt,
                 code, is_valid, validation_errors, warnings,
                 tried_repair, result, valLog, runs, genCalls, genLog, repairCalls, hist, arg, ret>>

\* lines 784-792: a poll slice elapsed without an answer
GenPollTimeout ==
  /\ pc = "gen_poll"
  /\ Emit(<<Ev("still_working", "", "")>>)
  /\ remaining' = remaining - PollSlice
  /\ pc' = IF remaining' <= 0 THEN "gen_join" ELSE "gen_poll"
  /\ UNCHANGED <<env, asked, question, classification, routed, attempt,
                 code, is_valid, validation_errors, warnings,
                 tried_repair, result, valLog, runs, genCalls, genLog, repairCalls, hist, arg, ret>>

\* lines 777, 810-819: the with block is left when the generator call ends;
\* then CODEGEN_TIMEOUT is reported and the request ends
GenJoin ==
  /\ pc = "gen_join"
  /\ Emit(<<ErrorEv("CODEGEN_TIMEOUT")>>)
  /\ genLog' = Append(genLog, [kind |-> "timeout", code |-> "", error |-> ""])
  /\ pc' = "end"
  /\ UNCHANGED <<env, asked, question, classification, routed, attempt,
                 remaining, code, is_valid, validation_errors, warnings,
                 tried_repair, result, valLog, runs, genCalls, repairCalls, hist, arg, ret>>

\* the loop has run max_retries times without a break
GenExhausted ==
  /\ pc = "gen_loop"
  /\ attempt >= max_retries
  /\ pc' = "gen_check"
  /\ UNCHANGED <<events, env, asked, question, classification, routed, attempt,
                 remaining, code, is_valid, validation_errors, warnings,
                 tried_repair, result, valLog, runs, genCalls, genLog, repairCalls, hist, arg, ret>>

\* line 823 with the check skipped
gen_failed_Skipped(valid, c) == FALSE

\* line 823: not is_valid or not code
gen_failed(valid, c) == ~valid \/ c = ""

\* lines 823-843: the check after the loop, the code event and running_fast
GenCheck ==
  /\ pc = "gen_check"
  /\ IF gen_failed(is_valid, code)
     THEN /\ Emit(<<ErrorEv("CODE_VALIDATION_FAILED")>>)
          /\ pc' = "end"
     ELSE /\ Emit(<<Ev("code", "fallback_execution", code), Ev("running_fast", "", "")>>)
          /\ pc' = "fb_download"
  /\ UNCHANGED <<env, asked, question, classification, routed, attempt,
                 remaining, code, is_valid, validation_errors, warnings,
                 tried_repair, result, valLog, runs, genCalls, genLog, repairCalls, hist, arg, ret>>

\* lines 844-851
FallbackDownload ==
  /\ pc = "fb_download"
  /\ \/ /\ pc' = "run1"
        /\ UNCHANGED events
     \/ /\ Emit(<<ErrorEv("DATA_READ_FAILED")>>)
        /\ pc' = "end"
  /\ UNCHANGED <<env, asked, question, classification, routed, attempt,
                 remaining, code, is_valid, validation_errors, warnings,
                 tried_repair, result, valLog, runs, genCalls, genLog, repairCalls, hist, arg, ret>>

\* what one subprocess.run of the worker can come to (_run_once and the
\* check of result.get("error") that follows it)
WorkerOutcomes == {"ok", "error_field", "nonzero_exit", "not_json", "hard_timeout"}

\* _run_once(code_to_run): the payload of the subprocess, lines 853-864
Launch(code_to_run, out) ==
  runs' = Append(runs, [code |-> code_to_run,
                        ctx |-> [question |-> question, row_limit |-> 200],
                        outcome |-> out])

\* lines 869-881: the first execution
RunFirst ==
  /\ pc = "run1"
  /\ \E out \in WorkerOutcomes, is_list \in BOOLEAN :
       /\ Launch(code, out)
       /\ CASE out = "ok" ->
                 /\ result' = [error |-> FALSE, table_is_list |-> is_list]
                 /\ pc' = "summarize"
                 /\ UNCHANGED <<events, tried_repair, repairCalls>>
            [] out = "hard_timeout" ->
                 /\ is_list
                 /\ Emit(<<ErrorEv("TIMEOUT_HARD")>>)
                 /\ pc' = "end"
                 /\ UNCHANGED <<result, tried_repair, repairCalls>>
            [] OTHER ->
                 \* except Exception as e_first
                 /\ is_list
                 /\ result' = IF out = "error_field"
                              THEN [error |-> TRUE, table_is_list |-> TRUE] ELSE result
                 /\ tried_repair' = TRUE
                 /\ Emit(<<Ev("repairing", "", "")>>)
                 /\ repairCalls' = Append(repairCalls,
                                          [question |-> question, code |-> code, error |-> out])
                 /\ pc' = "repair_wait"
  /\ UNCHANGED <<env, asked, question, classification, routed, attempt,
                 remaining, code, is_valid, validation_errors, warnings,
                 valLog, genCalls, genLog, hist, arg, ret>>

\* line 891 with the check of ok2 skipped
repair_rejected_Skipped(ok2) == FALSE

\* line 891: if not ok2
repair_rejected(ok2) == ~ok2

\* a repair that runs the repaired code without showing it
RepairReturn_Silent(programs) ==
  /\ pc = "repair_wait"
  /\ \E repaired \in programs :
       \E rep \in {validate_code(Source(repaired), env.SANDBOX_MODE)} :
           /\ valLog' = valLog \cup {[code |-> repaired, ok |-> rep.ok]}
           /\ hist' = [hist EXCEPT !.repaired = repaired]
           /\ IF repair_rejected(rep.ok)
              THEN /\ Emit(<<ErrorEv("CODE_VALIDATION_FAILED")>>)
                   /\ pc' = "end"
                   /\ UNCHANGED <<code, warnings>>
              ELSE /\ code' = repaired
                   /\ warnings' = rep.warnings
                   /\ Emit(<<Ev("running_fast", "", "")>>)
                   /\ pc' = "run2"
  /\ UNCHANGED <<env, asked, question, classification, routed, attempt,
                 remaining, is_valid, validation_errors,
                 tried_repair, result, runs, genCalls, genLog, repairCalls, arg, ret>>

\* lines 886, 890-905: repair_code answered; the candidate is validated
RepairReturn(programs) ==
  /\ pc = "repair_wait"
  /\ \E repaired \in programs :
       \E rep \in {validate_code(Source(repaired), env.SANDBOX_MODE)} :
           /\ valLog' = valLog \cup {[code |-> repaired, ok |-> rep.ok]}
           /\ hist' = [hist EXCEPT !.repaired = repaired]
           /\ IF repair_rejected(rep.ok)
              THEN /\ Emit(<<ErrorEv("CODE_VALIDATION_FAILED")>>)
                   /\ pc' = "end"
                   /\ UNCHANGED <<code, warnings>>
              ELSE /\ code' = repaired
                   /\ warnings' = rep.warnings
                   /\ Emit(<<Ev("code", "fallback_execution", repaired),
                             Ev("running_fast", "", "")>>)
                   /\ pc' = "run2"
  /\ UNCHANGED <<env, asked, question, classification, routed, attempt,
                 remaining, is_valid, validation_errors,
                 tried_repair, result, runs, genCalls, genLog, repairCalls, arg, ret>>

\* lines 912-915: repair_code raised
RepairRaise ==
  /\ pc = "repair_wait"
  /\ Emit(<<ErrorEv("EXEC_FAILED")>>)
  /\ pc' = "end"
  /\ UNCHANGED <<env, asked, question, classification, routed, attempt,
                 remaining, code, is_valid, validation_errors, warnings,
                 tried_repair, result, valLog, runs, genCalls, genLog, repairCalls, hist, arg, ret>>

\* lines 887-889: the repair call did not answer in REPAIR_TIMEOUT_SECONDS;
\* the error is yielded inside the with block
RepairTimeout ==
  /\ pc = "repair_wait"
  /\ Emit(<<ErrorEv("REPAIR_TIMEOUT")>>)
  /\ pc' = "repair_join"
  /\ UNCHANGED <<env, asked, question, classification, routed, attempt,
                 remaining, code, is_valid, validation_errors, warnings,
                 tried_repair, result, valLog, runs, genCalls, genLog, repairCalls, hist, arg, ret>>

\* line 883: the return leaves the with block when the repair call ends
RepairJoin ==
  /\ pc = "repair_join"
  /\ pc' = "end"
  /\ UNCHANGED <<events, env, asked, question, classification, routed, attempt,
                 remaining, code, is_valid, validation_errors, warnings,
                 tried_repair, result, valLog, runs, genCalls, genLog, repairCalls, hist, arg, ret>>

\* lines 906-915: the execution of the repaired code
RunSecond ==
  /\ pc = "run2"
  /\ \E out \in WorkerOutcomes, is_list \in BOOLEAN :
       /\ Launch(code, out)
       /\ CASE out = "ok" ->
                 /\ result' = [error |-> FALSE, table_is_list |-> is_list]
                 /\ pc' = "summarize"
                 /\ UNCHANGED events
            [] out = "hard_timeout" ->
                 /\ is_list
                 /\ Emit(<<ErrorEv("TIMEOUT_HARD")>>)
                 /\ pc' = "end"
                 /\ UNCHANGED result
            [] OTHER ->
                 \* except Exception as e_second
                 /\ is_list
                 /\ result' = IF out = "error_field"
                              THEN [error |-> TRUE, table_is_list |-> TRUE] ELSE result
                 /\ Emit(<<ErrorEv("EXEC_FAILED")>>)
                 /\ pc' = "end"
  /\ UNCHANGED <<env, asked, question, classification, routed, attempt,
                 remaining, code, is_valid, validation_errors, warnings,
                 tried_repair, valLog, genCalls, genLog, repairCalls, hist, arg, ret>>

\* lines 918-927: summarizing, the summary, persisting; table[:5] raises
\* out of the generator when the worker's table is not a list
Summarize ==
  /\ pc = "summarize"
  /\ IF result.table_is_list
     THEN /\ Emit(<<Ev("summarizing", "", ""), Ev("persisting", "", "")>>)
          /\ pc' = "fb_persist"
     ELSE /\ Emit(<<Ev("summarizing", "", "")>>)
          /\ pc' = "raised"
  /\ UNCHANGED <<env, asked, question, classification, routed, attempt,
                 remaining, code, is_valid, validation_errors, warnings,
                 tried_repair, result, valLog, runs, genCalls, genLog, repairCalls, hist, arg, ret>>

\* the uploads of the fallback path with the strategy tag of the fast path
FallbackPersist_Mistagged ==
  /\ pc = "fb_persist"
  /\ \/ /\ events' = events \o <<Ev("done", "fastpath", "")>>
        /\ hist' = [hist EXCEPT !.persisted_code = code]
     \/ /\ events' = events \o <<ErrorEv("PERSIST_FAILED")>>
        /\ UNCHANGED hist
  /\ pc' = "end"
  /\ UNCHANGED <<env, asked, question, classification, routed, attempt,
                 remaining, code, is_valid, validation_errors, warnings,
                 tried_repair, result, valLog, runs, genCalls, genLog, repairCalls, arg, ret>>

\* lines 937-1009: the uploads (the executed code among them), then done
FallbackPersist ==
  /\ pc = "fb_persist"
  /\ \/ /\ Emit(<<Ev("done", "fallback", "")>>)
        /\ hist' = [hist EXCEPT !.persisted_code = code]
     \/ /\ Emit(<<ErrorEv("PERSIST_FAILED")>>)
        /\ UNCHANGED hist
  /\ pc' = "end"
  /\ UNCHANGED <<env, asked, question, classification, routed, attempt,
                 remaining, code, is_valid, validation_errors, warnings,
                 tried_repair, result, valLog, runs, genCalls, genLog, repairCalls, arg, ret>>


\* ------------------------------------------------------------------------
\* Specifications
\* ------------------------------------------------------------------------
P_agg(dim, met) == [k \in {"dimension", "metric", "func"} |->
                      IF k = "dimension" THEN dim ELSE IF k = "metric" THEN met ELSE s_sum]

\* the requests of the dispatcher specification
FlowRequests ==
  UNION {
    { <<Env(Columns, TypedSchema, 1000, 65, FALSE, FALSE, "restricted", fused), Q_total_by>>,
      <<Env(Columns, TypedSchema, 1000, 65, TRUE, TRUE, "restricted", fused), Q_describe>>,
      <<Env(Columns, TypedSchema, FORCE_FALLBACK_MIN_ROWS, 65, FALSE, FALSE, "rich", fused),
        Q_total_by>> } : fused \in BOOLEAN }
FlowAnswers ==
  { Cls("run_aggregation", P_agg(s_region, s_rev), << >>, 90),
    Cls("run_aggregation", P_agg(s_zzz, s_revenue), << >>, 60),
    Cls("run_describe", << >>, << >>, 100),
    UnknownClassification }
FlowPrograms == {"", "good", "good_loops", "import_os"}

Init == InitWith(FlowRequests)

Next ==
  \/ Start
  \/ ShowCode
  \/ Dispatch
  \/ EmbedRoute(FlowAnswers)
  \/ ClassifySubmit
  \/ ClassifyReturn(FlowAnswers)
  \/ ClassifyRaise
  \/ ClassifyPollTimeout
  \/ ClassifyJoin
  \/ Route
  \/ FastpathDownload
  \/ FastpathExec
  \/ FastpathPersist
  \/ GenStart
  \/ GenSubmit
  \/ GenNoCode
  \/ GenCode(FlowPrograms)
  \/ GenRaise
  \/ GenPollTimeout
  \/ GenJoin
  \/ GenExhausted
  \/ GenCheck
  \/ FallbackDownload
  \/ RunFirst
  \/ RepairReturn(FlowPrograms)
  \/ RepairRaise
  \/ RepairTimeout
  \/ RepairJoin
  \/ RunSecond
  \/ Summarize
  \/ FallbackPersist

Spec == Init /\ [][Next]_vars


\* ---- the router alone, over a wide range of classifier answers ----
Vfull == {s_region, s_cost, s_rev, s_revenu, s_zzz, None, IntVal}
Vsmall == {s_region, s_zzz, None}

Rec1(k1, v1) == [k \in {k1} |-> v1]
Rec2(k1, v1, k2, v2) == [k \in {k1, k2} |-> IF k = k1 THEN v1 ELSE v2]
Rec3(k1, v1, k2, v2, k3, v3) ==
  [k \in {k1, k2, k3} |-> IF k = k1 THEN v1 ELSE IF k = k2 THEN v2 ELSE v3]

\* parameter dictionaries per tool, as (intent, params, filters)
RouterCalls ==
  {<<i, Rec3("dimension", d, "metric", m, "func", f), << >>>> :
      i \in {"run_aggregation", "aggregate"}, d \in Vfull, m \in Vsmall, f \in {s_sum, None}}
  \cup {<<"run_variance", Rec3("dimension", d, "period_a", a, "period_b", b), << >>>> :
      d \in Vsmall, a \in Vsmall, b \in Vsmall}
  \cup {<<"run_filter_and_sort", Rec2("sort_col", c, "filter_col", f), << >>>> :
      c \in Vfull, f \in Vsmall}
  \cup {<<"filter_rows", << >>, fl>> :
      fl \in {<< >>} \cup {<<v>> : v \in Vsmall \cup {IntVal}}
             \cup {<<v, w>> : v \in Vsmall, w \in Vsmall}}
  \cup {<<i, Rec1(k, c), << >>>> :
      i \in {"sort_rows"}, k \in {"sort_by_column", "column"}, c \in Vsmall}
  \cup {<<i, Rec1("column", c), << >>>> :
      i \in {"value_counts", "outliers", "sum_column", "percentile"}, c \in Vfull}
  \cup {<<"percentile", Rec2("column", c, "p", s_p90), << >>>> : c \in Vsmall}
  \cup {<<"top_n_per_group", Rec2("group_by_column", g, "metric_column", m), << >>>> :
      g \in Vsmall, m \in Vsmall}
  \cup {<<"pivot_table", Rec3("index", a, "columns", b, "values", c), << >>>> :
      a \in Vsmall, b \in Vsmall, c \in Vsmall}
  \cup {<<i, << >>, << >>>> :
      i \in {"run_describe", "describe", "Describe", "UNKNOWN", "smalltalk", ""}}

\* the confidences explored for a threshold: around it and around the margin
ConfidencesFor(minc) ==
  {0, 100} \cup {c \in {minc - 11, minc - 10, minc - 9, minc - 1, minc} : c >= 0}

\* the classifier answers without column parameters, and one aggregation
DescribeCalls ==
  {c \in RouterCalls : c[2] = << >> /\ c[3] = << >>}
  \cup {<<"run_aggregation", Rec3("dimension", d, "metric", s_region, "func", s_sum), << >>>> :
          d \in Vsmall}

RouterAnswers(calls, minc) ==
  {Cls(c[1], c[2], c[3], conf) : c \in calls, conf \in ConfidencesFor(minc)}

RouterEnv(schema, minc) == Env(Columns, schema, 1000, minc, FALSE, FALSE, "restricted", FALSE)

\* (environment, question, classifier calls) explored by the router
RouterRequests ==
  {<<RouterEnv(TypedSchema, 65), Q_total_by, RouterCalls>>}
  \cup {<<RouterEnv(TypedSchema, 65), qq, DescribeCalls>> :
          qq \in {Q_describe, Q_describe_by, Q_summary_per,
                  Q_stats_nearby, Q_avg_and, Q_total}}
  \cup {<<RouterEnv(UntypedSchema, 65), Q_avg_and, DescribeCalls>>}
  \cup {<<RouterEnv(TypedSchema, minc), Q_describe, DescribeCalls>> : minc \in {5, 40, 100}}

\* the state in which the classifier has just answered
InitRouter ==
  /\ pc = "route"
  /\ events = <<Ev("received", "", "")>>
  /\ \E r \in RouterRequests :
        /\ Locals({<<r[1], r[2]>>})
        /\ classification \in RouterAnswers(r[3], r[1].MIN_FASTPATH_CONFIDENCE)

NextRouter == Route

SpecRouter == InitRouter /\ [][NextRouter]_vars


\* ------------------------------------------------------------------------
\* Properties of the dispatcher (specification Spec)
\* ------------------------------------------------------------------------
LastIs(type, detail) ==
  /\ events # << >>
  /\ events[Len(events)].type = type
  /\ events[Len(events)].detail = detail

ErrorIndexes == {i \in DOMAIN events : events[i].type = "error"}

Accepts(c) == validate_code(Source(c), env.SANDBOX_MODE).ok

\* C1: every code string handed to the worker (first and post-repair
\* execution) is one the validator accepted for that exact string, warnings
\* or not; a repaired candidate the validator rejects ends the request with
\* CODE_VALIDATION_FAILED and is not executed.
C1_OnlyValidatedCodeRuns ==
  /\ \A i \in DOMAIN runs :
       /\ [code |-> runs[i].code, ok |-> TRUE] \in valLog
       /\ Accepts(runs[i].code)
  /\ (hist.repaired # "-" /\ ~Accepts(hist.repaired)) =>
       /\ pc = "end"
       /\ LastIs("error", "CODE_VALIDATION_FAILED")
       /\ Len(runs) = 1
       /\ code # hist.repaired

\* the repaired code carries warnings and has been executed
C1_Witness ==
  /\ Len(runs) = 2
  /\ runs[2].code = "good_loops"
  /\ hist.repaired = "good_loops"
  /\ warnings # << >>

\* C2: at most one repair request, at most two worker runs, at most 2
\* generation attempts; a failure of the second execution ends the request
\* with an error.
C2_AttemptBudgets ==
  /\ Len(repairCalls) <= 1
  /\ Len(runs) <= 2
  /\ Len(genCalls) <= 2
  /\ (Len(runs) = 2 /\ runs[2].outcome # "ok") =>
       /\ pc = "end"
       /\ ErrorIndexes # {}
       /\ Len(events) \in ErrorIndexes

\* two generation attempts, a repair, and a second execution that failed
C2_Witness ==
  /\ Len(genCalls) = 2
  /\ Len(repairCalls) = 1
  /\ Len(runs) = 2
  /\ runs[2].outcome = "error_field"

GenFailKinds == {"no_code", "invalid", "raised"}

\* C3: when every attempt of the budget ends with no code, rejected code or
\* a generator exception, the request ends with CODE_VALIDATION_FAILED and
\* the worker is never run; a valid candidate ends the generation and is the
\* code the first execution gets.
C3_GenerationBudget ==
  /\ (Len(genLog) = max_retries /\ \A i \in DOMAIN genLog : genLog[i].kind \in GenFailKinds) =>
       /\ runs = << >>
       /\ pc \in {"gen_loop", "gen_check", "end"}
       /\ pc = "end" => LastIs("error", "CODE_VALIDATION_FAILED")
  /\ \A i \in DOMAIN genLog : genLog[i].kind = "valid" =>
       /\ i = Len(genLog)
       /\ Len(genCalls) = i
       /\ pc \notin {"gen_loop", "gen_poll", "gen_join"}
       /\ runs # << >> => runs[1].code = genLog[i].code
       /\ pc \in {"gen_check", "fb_download", "run1"} => code = genLog[i].code

\* the budget is used up by a rejected candidate and a generator exception
C3_Witness ==
  /\ pc = "end"
  /\ Len(genLog) = 2
  /\ genLog[1].kind = "invalid"
  /\ genLog[2].kind = "raised"
  /\ LastIs("error", "CODE_VALIDATION_FAILED")

\* C4: an error event is the last event of the stream, and nothing is
\* started after it.
C4_ErrorIsLast ==
  \A i \in ErrorIndexes :
     /\ i = Len(events)
     /\ pc \in {"end", "repair_join"}

\* C5: a non-zero exit or a non-JSON stdout of the worker ends the request
\* as a hard timeout does and never leads to a repair request; only an error
\* field in a well-formed response is repaired.
C5_TransportFailureIsTerminal ==
  /\ \A i \in DOMAIN repairCalls : repairCalls[i].error = "error_field"
  /\ \A i \in DOMAIN runs :
       runs[i].outcome \in {"nonzero_exit", "not_json", "hard_timeout"} =>
         /\ i = Len(runs)
         /\ pc = "end"

\* C9: after a timeout or an exception of the classifier the classification
\* is UNKNOWN with confidence 0, no error event is emitted before code
\* generation starts, the fast path is never entered, and a done event
\* carries strategy fallback.
C9_ClassifierFailureDegrades ==
  hist.classifier_failed =>
    /\ classification = UnknownClassification
    /\ pc # "route" =>
         /\ routed.intent = "UNKNOWN"
         /\ routed.confidence = 0
         /\ ~routed.is_fastpath_candidate
    /\ pc \notin {"fp_download", "fp_exec", "fp_persist"}
    /\ ~hist.fastpath_result /\ ~hist.fastpath_raised
    /\ pc \in {"route", "gen_start"} => ErrorIndexes = {}
    /\ pc \notin {"route", "gen_start"} =>
         \E g \in DOMAIN events :
            /\ events[g].type = "generating_code"
            /\ \A i \in ErrorIndexes : i > g
            /\ \A i \in DOMAIN events : events[i].type = "running_fast" => i > g
    /\ \A i \in DOMAIN events : events[i].type = "done" => events[i].detail = "fallback"

\* the classifier timed out and the request finished on the fallback path
C9_Witness ==
  /\ hist.classifier_failed
  /\ \E i \in DOMAIN events : events[i].type = "still_working"
  /\ pc = "end"
  /\ LastIs("done", "fallback")

\* C10: an exception on the fast path after acceptance emits no error
\* event; code generation follows, and a done event carries strategy
\* fallback.
C10_FastpathFailureIsSilent ==
  hist.fastpath_raised =>
    /\ pc = "gen_start" => ErrorIndexes = {}
    /\ pc \notin {"fp_download", "fp_exec", "fp_persist"}
    /\ \A i \in DOMAIN events : events[i].type = "done" => events[i].detail = "fallback"


\* ------------------------------------------------------------------------
\* Properties of the router (specification SpecRouter)
\* ------------------------------------------------------------------------
\* the question holds the word "by" or "per", in any case
AsksGrouping == \E i \in DOMAIN asked : Lower(asked[i]) \in {w_by, w_per}

\* C6: a classification with canonical intent DESCRIBE for a question that
\* contains "by" or "per" is not accepted as fastpath, whatever its
\* confidence and parameters; the request goes on to code generation.
C6_DescribeWithGroupingFallsBack ==
  (pc # "route" /\ routed.intent = "DESCRIBE" /\ AsksGrouping) =>
    /\ ~routed.is_fastpath_candidate
    /\ pc = "gen_start"

\* a describe classification at confidence 1.0 for "summary PER region"
C6_Witness ==
  /\ pc = "gen_start"
  /\ routed.intent = "DESCRIBE"
  /\ routed.confidence = 100
  /\ asked = Q_summary_per

\* the value v resolves to a column of the dataset
IsColumn(r) == r # None /\ r # Raise /\ InSeq(r, env.column_names)
ResolvesToColumn(v) == IsColumn(_smart_resolve_column(v, env.column_names))

\* every required column parameter of the routed intent resolves to a column
RequiredColumnsResolve ==
  /\ \A n \in DOMAIN RequiredKeys(routed.intent) :
       ResolvesToColumn(Get(classification.params, RequiredKeys(routed.intent)[n]))
  /\ routed.intent = "FILTER" =>
       \A n \in DOMAIN classification.filters : ResolvesToColumn(classification.filters[n])

\* C7: a classification is accepted as fastpath only if every required
\* column parameter of its intent resolves to a name in the column list.
C7_AcceptedParamsAreColumns ==
  routed.is_fastpath_candidate => RequiredColumnsResolve

\* C8: a classification is accepted only with a confidence of at least
\* MIN_FASTPATH_CONFIDENCE, or of at least that minus 0.10 with its
\* parameters resolved; below max(0, MIN_FASTPATH_CONFIDENCE - 0.10), and
\* for an intent that is no known operation, the request falls back.
C8_ConfidenceRule ==
  /\ routed.is_fastpath_candidate =>
       \/ routed.confidence >= env.MIN_FASTPATH_CONFIDENCE
       \/ /\ routed.confidence >= env.MIN_FASTPATH_CONFIDENCE - SoftMargin
          /\ RequiredColumnsResolve
  /\ (pc # "route" /\ routed.confidence < Max2(0, env.MIN_FASTPATH_CONFIDENCE - SoftMargin)) =>
       ~routed.is_fastpath_candidate /\ pc = "gen_start"
  /\ (pc # "route" /\ routed.intent \notin KnownIntents) =>
       ~routed.is_fastpath_candidate /\ pc = "gen_start"

\* ------------------------------------------------------------------------
\* Further properties of the dispatcher (specification Spec)
\* ------------------------------------------------------------------------
DoneIndexes == {i \in DOMAIN events : events[i].type = "done"}

\* C11: done carries strategy fastpath only when the deterministic operation
\* produced the result and the request generated no code and ran no worker;
\* it carries strategy fallback only when the last worker run, of validated
\* generated code, succeeded.
C11_StrategyTellsThePath ==
  \A i \in DoneIndexes :
     /\ events[i].detail \in {"fastpath", "fallback"}
     /\ events[i].detail = "fastpath" =>
          /\ hist.fastpath_result
          /\ routed.is_fastpath_candidate
          /\ genCalls = << >> /\ repairCalls = << >>
          /\ runs = << >>
          /\ \A j \in DOMAIN events : events[j].type # "code"
     /\ events[i].detail = "fallback" =>
          /\ ~hist.fastpath_result
          /\ runs # << >>
          /\ runs[Len(runs)].outcome = "ok"
          /\ Accepts(runs[Len(runs)].code)
          /\ \/ \E g \in DOMAIN genLog :
                   genLog[g].kind = "valid" /\ genLog[g].code = runs[Len(runs)].code
             \/ Len(runs) = 2 /\ hist.repaired = runs[2].code

\* a request answered by the fast path
C11_Witness ==
  /\ pc = "end"
  /\ LastIs("done", "fastpath")
  /\ hist.fastpath_result

\* ------------------------------------------------------------------------
\* validate_code called on its own (specification SpecValidator)
\* ------------------------------------------------------------------------
\* the deepest loop nest of the programs explored
MaxNest == 5

n_df == <<"d", "f">>
n_ctx == <<"c", "t", "x">>
n_run == <<"r", "u", "n">>
n_main == <<"m", "a", "i", "n">>
n_eval == <<"e", "v", "a", "l">>
n_open == <<"o", "p", "e", "n">>
n_import == <<"_", "_", "i", "m", "p", "o", "r", "t", "_", "_">>
n_class == <<"_", "_", "c", "l", "a", "s", "s", "_", "_">>
n_builtins == <<"_", "_", "b", "u", "i", "l", "t", "i", "n", "s", "_", "_">>
n_f == <<"f">>
n_under == <<"_", "_">>
n_private == <<"_", "x">>
n_astype == <<"a", "s", "t", "y", "p", "e">>
n_complex128 == <<"c", "o", "m", "p", "l", "e", "x", "1", "2", "8">>
n_float64 == <<"f", "l", "o", "a", "t", "6", "4">>

\* a string constant
ConstantN(value) == Node("Constant", value, << >>, << >>, << >>)
\* df.astype('<dtype>')
AstypeN(dtype) == CallN(AttrN(NameN(n_df), n_astype), <<ConstantN(dtype)>>)

\* the import statement of a program; none when the program has none
ImportStmt(imp) ==
  CASE imp = "none" -> << >>
    [] imp = "pandas" -> <<ImportN(<< <<"pandas">> >>)>>
    [] imp = "pandas.io" -> <<ImportN(<< <<"pandas", "io">> >>)>>
    [] imp = "seaborn" -> <<ImportN(<< <<"seaborn">> >>)>>
    [] imp = "scipy" -> <<ImportN(<< <<"scipy">> >>)>>
    [] imp = "os.path" -> <<ImportN(<< <<"os", "path">> >>)>>
    [] imp = "pandas, pickle" -> <<ImportN(<< <<"pandas">>, <<"pickle">> >>)>>
    [] imp = "from numpy" -> <<ImportFromN(<<"numpy", "linalg">>)>>
    [] imp = "from seaborn" -> <<ImportFromN(<<"seaborn">>)>>
    [] imp = "from os" -> <<ImportFromN(<<"os">>)>>
    [] imp = "from ." -> <<ImportFromN(<< >>)>>

ImportChoices ==
  {"none", "pandas", "pandas.io", "seaborn", "scipy", "os.path", "pandas, pickle",
   "from numpy", "from seaborn", "from os", "from ."}

\* one statement of a program
Statement(st) ==
  CASE st = "df.head()" -> StmtN(<<DfHead>>)
    [] st = "eval(df)" -> StmtN(<<CallN(NameN(n_eval), <<NameN(n_df)>>)>>)
    [] st = "open(df)" -> StmtN(<<CallN(NameN(n_open), <<NameN(n_df)>>)>>)
    [] st = "__import__(df)" -> StmtN(<<CallN(NameN(n_import), <<NameN(n_df)>>)>>)
    [] st = "f(eval(df))" -> StmtN(<<CallN(NameN(n_f), <<CallN(NameN(n_eval), <<NameN(n_df)>>)>>)>>)
    [] st = "df.eval(df)" -> StmtN(<<CallN(AttrN(NameN(n_df), n_eval), <<NameN(n_df)>>)>>)
    [] st = "f = eval" -> StmtN(<<NameN(n_f), NameN(n_eval)>>)
    [] st = "df.__class__" -> StmtN(<<AttrN(NameN(n_df), n_class)>>)
    [] st = "__builtins__" -> StmtN(<<NameN(n_builtins)>>)
    [] st = "__" -> StmtN(<<NameN(n_under)>>)
    [] st = "df._x" -> StmtN(<<AttrN(NameN(n_df), n_private)>>)
    [] st = "import os" -> ImportN(<< <<"os">> >>)
    [] st = "import math" -> ImportN(<< <<"math">> >>)
    [] st = "df.astype('complex128')" -> StmtN(<<AstypeN(n_complex128)>>)
    [] st = "df.astype('float64')" -> StmtN(<<AstypeN(n_float64)>>)

StatementChoices ==
  {"df.head()", "eval(df)", "open(df)", "__import__(df)", "f(eval(df))", "df.eval(df)",
   "f = eval", "df.__class__", "__builtins__", "__", "df._x", "import os", "import math",
   "df.astype('complex128')", "df.astype('float64')"}

\* the function definitions of a program, with the given body
EntryDefs(entry, body) ==
  CASE entry = "run(df, ctx)" -> <<DefN(n_run, <<n_df, n_ctx>>, body)>>
    [] entry = "run(df, ctx, f)" -> <<DefN(n_run, <<n_df, n_ctx, n_f>>, body)>>
    [] entry = "run(df)" -> <<DefN(n_run, <<n_df>>, body)>>
    [] entry = "run(ctx, df)" -> <<DefN(n_run, <<n_ctx, n_df>>, body)>>
    [] entry = "main(df, ctx)" -> <<DefN(n_main, <<n_df, n_ctx>>, body)>>
    [] entry = "run inside main" -> <<DefN(n_main, << >>, <<DefN(n_run, <<n_df, n_ctx>>, body)>>)>>
    [] entry = "run twice" -> <<DefN(n_run, <<n_df, n_ctx>>, body),
                                DefN(n_run, <<n_df, n_ctx>>, <<StmtN(<<DfHead>>)>>)>>
    [] entry = "async run(df, ctx)" ->
         <<Node("AsyncFunctionDef", n_run, << >>, <<n_df, n_ctx>>, body)>>
    [] entry = "none" -> << >>

EntryChoices ==
  {"run(df, ctx)", "run(df, ctx, f)", "run(df)", "run(ctx, df)", "main(df, ctx)",
   "run inside main", "run twice", "async run(df, ctx)", "none"}

\* loops of both kinds around a body
RECURSIVE Loops(_, _)
Loops(k, inner) ==
  IF k = 0 THEN inner
  ELSE IF k % 2 = 0 THEN <<ForN(Loops(k - 1, inner))>>
  ELSE <<WhileN(Loops(k - 1, inner))>>

\* the code string of a program: its import, its function definitions with
\* the statement in depth loops as the body (or df.head() when the statement
\* stands outside), and the statement at module level when it stands outside
Program(p) ==
  IF p.text = "empty" THEN Code(TRUE, FALSE, << >>)
  ELSE IF p.text = "unparsable" THEN Code(FALSE, FALSE, << >>)
  ELSE Code(FALSE, TRUE,
            ImportStmt(p.imp)
            \o EntryDefs(p.entry, IF p.outside THEN <<StmtN(<<DfHead>>)>>
                                  ELSE Loops(p.depth, <<Statement(p.st)>>))
            \o (IF p.outside THEN Loops(p.depth, <<Statement(p.st)>>) ELSE << >>))

Programs ==
  [text : {"parsed"}, imp : ImportChoices, entry : EntryChoices,
   st : StatementChoices, depth : {0, MaxNest}, outside : {FALSE}]
  \cup [text : {"parsed"}, imp : {"none", "os.path"}, entry : EntryChoices,
        st : {"df.head()", "eval(df)", "df.__class__"}, depth : {0, 1}, outside : {TRUE}]
  \cup [text : {"empty", "unparsable"}, imp : {"none"}, entry : {"none"},
        st : {"df.head()"}, depth : {0}, outside : {FALSE}]

\* the allowlists a caller passes: none, and two that name denylisted modules
CallerAllowlists == {{}, {"os", "pandas"}, {"pickle", "scipy", "numpy", "seaborn"}}

ValidatorCalls ==
  [program : Programs, allowlist : {{}}, mode : {"restricted", "rich"}]
  \cup [program : {p \in Programs : p.st \in {"df.head()", "import os"} /\ p.depth = 0},
        allowlist : CallerAllowlists \ {{}}, mode : {"restricted"}]

\* validate_code(code, allowlist) of sandbox_runner.py, under SANDBOX_MODE
Validate ==
  /\ pc = "call"
  /\ ret' = validate_code_allow(Program(arg.program), arg.allowlist, env.SANDBOX_MODE)
  /\ pc' = "validated"
  /\ NoRequest

InitValidator == CalledWith(ValidatorCalls)
NextValidator == Validate
SpecValidator == InitValidator /\ [][NextValidator]_vars

\* ------------------------------------------------------------------------
\* Properties of validate_code
\* ------------------------------------------------------------------------
\* every node of a syntax tree
RECURSIVE Nodes(_)
Nodes(n) == {n} \cup UNION {Nodes(n.kids[i]) : i \in 1..Len(n.kids)}

\* the dynamic-execution and file primitives
Primitives ==
  {<<"e", "x", "e", "c">>, <<"e", "v", "a", "l">>,
   <<"c", "o", "m", "p", "i", "l", "e">>, <<"o", "p", "e", "n">>,
   <<"_", "_", "i", "m", "p", "o", "r", "t", "_", "_">>,
   <<"g", "l", "o", "b", "a", "l", "s">>, <<"l", "o", "c", "a", "l", "s">>,
   <<"i", "n", "p", "u", "t">>}

\* the node is an import of a module whose root is outside allow
ImportsOutside(n, allow) ==
  /\ n.t \in {"Import", "ImportFrom"}
  /\ \E i \in 1..Len(n.mods) : Root(n.mods[i]) \notin allow

\* the node is an import of a system-access module
ImportsDenied(n) ==
  /\ n.t \in {"Import", "ImportFrom"}
  /\ \E i \in 1..Len(n.mods) : Root(n.mods[i]) \in FORBIDDEN_MODULE_PREFIXES

\* the node is a call of a primitive by its name
CallsPrimitive(n) ==
  /\ n.t = "Call"
  /\ n.kids[1].t = "Name"
  /\ n.kids[1].id \in Primitives

\* the node is a reference to a name or an attribute that starts and ends
\* with two underscores
RefersToDunder(n) ==
  /\ n.t \in {"Name", "Attribute"}
  /\ Len(n.id) >= 2
  /\ SubSeq(n.id, 1, 2) = <<"_", "_">>
  /\ SubSeq(n.id, Len(n.id) - 1, Len(n.id)) = <<"_", "_">>

Violates(n, allow) ==
  \/ ImportsOutside(n, allow)
  \/ ImportsDenied(n)
  \/ CallsPrimitive(n)
  \/ RefersToDunder(n)

\* a top-level def run(df, ctx)
HasEntryPoint(tree) ==
  \E i \in 1..Len(tree.kids) :
     /\ tree.kids[i].t = "FunctionDef"
     /\ tree.kids[i].id = n_run
     /\ tree.kids[i].params = <<n_df, n_ctx>>

\* the allowlist a call of validate_code applies
AllowlistOf(call, mode) ==
  IF call.allowlist # {} THEN call.allowlist ELSE ALLOWED_IMPORTS(mode)

Sound(prog, allow, report) ==
  /\ (\E n \in Nodes(prog.tree) : Violates(n, allow))
       => ~report.ok /\ report.errors # << >>
  /\ (HasEntryPoint(prog.tree) /\ \A n \in Nodes(prog.tree) : ~Violates(n, allow))
       => report.ok /\ report.errors = << >>

CastsToComplex(n) ==
  /\ n.t = "Call"
  /\ n.kids[1].t = "Attribute" /\ n.kids[1].id = n_astype
  /\ \E i \in 2..Len(n.kids) :
        /\ n.kids[i].t = "Constant"
        /\ Len(n.kids[i].id) >= 7
        /\ SubSeq(n.kids[i].id, 1, 7) = <<"c", "o", "m", "p", "l", "e", "x">>

\* C24 (as stated): code that casts to a complex dtype is reported not ok
\* with the error 'Complex dtype is not allowed (astype(complex)).', even
\* with the entry point and no forbidden import, call or dunder.
C24_ComplexDtypeIsRejected ==
  (pc = "validated" /\ Program(arg.program).parses
     /\ \E n \in Nodes(Program(arg.program).tree) : CastsToComplex(n))
    => /\ ~ret.ok
       /\ \E i \in 1..Len(ret.errors) :
             ret.errors[i].kind = "Complex dtype is not allowed (astype(complex))."

\* what the code does for C24: with the entry point and no forbidden import,
\* call or dunder, a cast to a complex dtype is reported ok with no errors
C24_ComplexDtypeIsAccepted ==
  (pc = "validated" /\ arg.program.st = "df.astype('complex128')"
     /\ arg.program.text = "parsed" /\ arg.program.entry = "run(df, ctx)"
     /\ arg.program.imp = "none")
    => ret.ok /\ ret.errors = << >>

\* C13 (as stated): code without exactly one top-level run with exactly the
\* two positional parameters (df, ctx) fails validation.
ExactlyOneEntryPoint(tree) ==
  /\ HasEntryPoint(tree)
  /\ Cardinality({i \in 1..Len(tree.kids) :
                    tree.kids[i].t = "FunctionDef" /\ tree.kids[i].id = n_run}) = 1

C13_EntryPointRequired ==
  (pc = "validated" /\ Program(arg.program).parses
     /\ ~ExactlyOneEntryPoint(Program(arg.program).tree))
    => ~ret.ok

\* C13, the short-circuit part: a report about a missing entry point or a
\* parse failure holds that one error and no warning
C13_ShortCircuit ==
  (pc = "validated" /\ ~Program(arg.program).empty
     /\ (~Program(arg.program).parses \/ ~has_run_func(Program(arg.program).tree)))
    => /\ ~ret.ok
       /\ Len(ret.errors) = 1
       /\ ret.errors[1].kind \in {"SyntaxError", "Missing required function: def run(df, ctx):"}
       /\ ret.warnings = << >>

\* ------------------------------------------------------------------------
\* worker.py: Python values and sanitize_for_json
\* ------------------------------------------------------------------------
\* A Python value: k is its type, v the text of a scalar ("nan", "inf" and
\* "-inf" for the non-finite floats), items the elements of a list, a tuple
\* or a DataFrame (its rows) and the entries of a dict in insertion order,
\* key the key under which the value is stored when it is a dict entry.
Value(k, v, items) == [k |-> k, key |-> "", v |-> v, items |-> items]
PyNone == Value("NoneType", "None", << >>)
PyFloat(v) == Value("float", v, << >>)
NpFloat64(v) == Value("numpy.float64", v, << >>)
NpFloat32(v) == Value("numpy.float32", v, << >>)
NpInt64(v) == Value("numpy.int64", v, << >>)
PyInt(v) == Value("int", v, << >>)
PyStr(v) == Value("str", v, << >>)
PyList(items) == Value("list", "", items)
PyTuple(items) == Value("tuple", "", items)
PyDict(entries) == Value("dict", "", entries)
DataFrame(rows) == Value("DataFrame", "", rows)
\* the entry key: value of a dict
Entry(key, value) == [value EXCEPT !.key = key]
\* the value without the key it is stored under
Bare(value) == [value EXCEPT !.key = ""]

NonFinite == {"nan", "inf", "-inf"}

\* isinstance(obj, float): numpy.float64 is a subclass of float, the other
\* numpy floating types are not
IsFloatInstance(obj) == obj.k \in {"float", "numpy.float64"}

\* sanitize_for_json(obj)
RECURSIVE sanitize_for_json(_)
sanitize_for_json(obj) ==
  IF obj.k = "dict"
  THEN [obj EXCEPT !.items = [i \in 1..Len(obj.items) |->
                                Entry(obj.items[i].key,
                                      sanitize_for_json(Bare(obj.items[i])))]]
  ELSE IF obj.k = "list"
  THEN [obj EXCEPT !.items = [i \in 1..Len(obj.items) |-> sanitize_for_json(obj.items[i])]]
  ELSE IF IsFloatInstance(obj)
  THEN IF obj.v \in NonFinite THEN [PyNone EXCEPT !.key = obj.key]
       ELSE [obj EXCEPT !.k = "float"]
  ELSE IF obj.k = "numpy.int64" THEN [obj EXCEPT !.k = "int"]
  ELSE IF obj.k = "numpy.float32" THEN [obj EXCEPT !.k = "float"]
  ELSE obj

\* ------------------------------------------------------------------------
\* sanitize_for_json called on its own (specification SpecSanitize)
\* ------------------------------------------------------------------------
\* the deepest nesting of the values explored
MaxDepth == 3

Scalars ==
  {PyNone, PyFloat("1.5"), PyFloat("nan"), PyFloat("inf"), PyFloat("-inf"),
   NpFloat64("nan"), NpFloat64("2.5"), NpFloat32("nan"), NpFloat32("-inf"),
   NpFloat32("2.5"), NpInt64("7"), PyInt("7"), PyStr("nan")}

Containers == {"list", "tuple", "dict"}
Paths == UNION {[1..n -> Containers] : n \in 0..MaxDepth}

\* the scalar inside the containers of path, outermost first, each holding
\* a finite float beside it
RECURSIVE Nested(_, _)
Nested(path, leaf) ==
  IF path = << >> THEN leaf
  ELSE IF Head(path) = "list" THEN PyList(<<PyFloat("1.5"), Nested(Tail(path), leaf)>>)
  ELSE IF Head(path) = "tuple" THEN PyTuple(<<PyFloat("1.5"), Nested(Tail(path), leaf)>>)
  ELSE PyDict(<<Entry("a", PyFloat("1.5")), Entry("b", Nested(Tail(path), leaf))>>)

SanitizeCalls == [mode : {"restricted"}, path : Paths, leaf : Scalars]

Sanitize ==
  /\ pc = "call"
  /\ ret' = sanitize_for_json(Nested(arg.path, arg.leaf))
  /\ pc' = "sanitized"
  /\ NoRequest

InitSanitize == CalledWith(SanitizeCalls)
NextSanitize == Sanitize
SpecSanitize == InitSanitize /\ [][NextSanitize]_vars

\* a NaN or an infinity of any float type, at any depth
RECURSIVE HasNonFinite(_)
HasNonFinite(x) ==
  \/ x.k \in {"float", "numpy.float64", "numpy.float32"} /\ x.v \in NonFinite
  \/ \E i \in 1..Len(x.items) : HasNonFinite(x.items[i])

\* C15 (as stated): whatever dicts, lists, tuples, Python floats and numpy
\* float scalars a value nests, the output of sanitize_for_json contains no
\* NaN and no infinity.
C15_SanitizedIsFinite == (pc = "sanitized") => ~HasNonFinite(ret)

\* the part of C15 that the code keeps: through dicts and lists only, floats
\* that are instances of float are replaced by None; numpy.float32 is not one
C15_ListsAndDictsOfFloats ==
  (pc = "sanitized" /\ arg.leaf.k # "numpy.float32"
     /\ (\A i \in 1..Len(arg.path) : arg.path[i] # "tuple"))
    => ~HasNonFinite(ret)

\* ------------------------------------------------------------------------
\* worker.py: main
\* ------------------------------------------------------------------------
DictHas(d, key) == \E i \in 1..Len(d.items) : d.items[i].key = key
DictGet(d, key) == Bare(d.items[CHOOSE i \in 1..Len(d.items) : d.items[i].key = key])
\* d.setdefault(key, value)
SetDefault(d, key, value) ==
  IF DictHas(d, key) THEN d ELSE [d EXCEPT !.items = Append(@, Entry(key, value))]

IntText(n) == <<"0", "1", "2", "3">>[n + 1]

\* int(ctx.get("row_limit", 200)); ctx is a function from its keys
DefaultRowLimit == 200
RowLimit(ctx) == IF "row_limit" \in DOMAIN ctx THEN ctx["row_limit"] ELSE DefaultRowLimit

\* df.head(n).to_dict(orient="records")
HeadRecords(df, n) == PyList(SubSeq(df.items, 1, Min2(n, Len(df.items))))
\* {"rows": len(df), "columns": len(df.columns)}
ShapeMetrics(df) ==
  PyDict(<<Entry("rows", PyInt(IntText(Len(df.items)))),
           Entry("columns", PyInt(IntText(IF df.items = << >> THEN 0
                                          ELSE Len(df.items[1].items))))>>)

_fallback_result(df, ctx) ==
  PyDict(<<Entry("table", HeadRecords(df, RowLimit(ctx))),
           Entry("metrics", ShapeMetrics(df)),
           Entry("chartData", PyDict(<< >>)),
           Entry("message", PyStr("Fallback res generated due to code execution failure."))>>)

\* lines 231-237: the shape of what run returned
Coerced(res, df, ctx) ==
  IF res.k = "DataFrame"
  THEN PyDict(<<Entry("table", PyList(res.items)), Entry("metrics", PyDict(<< >>)),
                Entry("chartData", PyDict(<< >>))>>)
  ELSE IF res.k = "list"
  THEN PyDict(<<Entry("table", res), Entry("metrics", PyDict(<< >>)),
                Entry("chartData", PyDict(<< >>))>>)
  ELSE IF res.k # "dict" THEN _fallback_result(df, ctx)
  ELSE res

\* the rows of one candidate table, None when it is none
RowsOf(x) ==
  IF x.k = "DataFrame" THEN PyList(x.items)
  ELSE IF x.k = "list" THEN Bare(x)
  ELSE IF x.k = "dict" THEN PyList(<<Bare(x)>>)
  ELSE PyNone

\* lines 243-263: table_rows for result["tables"]
TableRows(tables) ==
  IF tables.k = "list" /\ Len(tables.items) > 0 THEN RowsOf(tables.items[1])
  ELSE IF tables.k = "dict" /\ \E i \in 1..Len(tables.items) : RowsOf(tables.items[i]) # PyNone
  THEN RowsOf(tables.items[CHOOSE i \in 1..Len(tables.items) :
                             /\ RowsOf(tables.items[i]) # PyNone
                             /\ \A j \in 1..(i - 1) : RowsOf(tables.items[j]) = PyNone])
  ELSE PyNone

\* lines 242-265: tables -> table
WithTable(res) ==
  IF ~DictHas(res, "table") /\ DictHas(res, "tables")
       /\ TableRows(DictGet(res, "tables")) # PyNone
  THEN SetDefault(res, "table", TableRows(DictGet(res, "tables")))
  ELSE res

\* lines 268-276: chosen for result["charts"]
Chosen(charts) ==
  IF charts.k = "dict" THEN charts
  ELSE IF charts.k = "list" /\ Len(charts.items) > 0 THEN charts.items[1]
  ELSE PyNone

\* lines 267-276: charts -> chartData
WithChart(res) ==
  IF ~DictHas(res, "chartData") /\ DictHas(res, "charts")
       /\ Chosen(DictGet(res, "charts")).k = "dict"
  THEN SetDefault(res, "chartData", Chosen(DictGet(res, "charts")))
  ELSE res

\* lines 279-281: the required keys
WithRequired(res, df, ctx) ==
  SetDefault(SetDefault(SetDefault(res, "table", HeadRecords(df, RowLimit(ctx))),
                        "metrics", ShapeMetrics(df)),
             "chartData", PyDict(<< >>))

\* lines 231-283: what main makes of the value run returned, up to sanitized
Normalize(res, df, ctx) ==
  sanitize_for_json(WithRequired(WithChart(WithTable(Coerced(res, df, ctx))), df, ctx))

\* json.dumps accepts the value
RECURSIVE Serializable(_)
Serializable(x) ==
  /\ x.k \in {"dict", "list", "tuple", "str", "int", "float", "numpy.float64", "NoneType"}
  /\ \A i \in 1..Len(x.items) : Serializable(x.items[i])

\* json.loads(json.dumps(x)): the document a reader of stdout gets
RECURSIVE dumps(_)
dumps(x) ==
  IF x.k \in {"dict", "list", "tuple"}
  THEN [x EXCEPT !.k = IF x.k = "dict" THEN "object" ELSE "array",
                 !.items = [i \in 1..Len(x.items) |->
                              Entry(x.items[i].key, dumps(Bare(x.items[i])))]]
  ELSE IF x.k \in {"float", "numpy.float64"}
  THEN [x EXCEPT !.k = "number",
                 !.v = IF x.v = "nan" THEN "NaN"
                       ELSE IF x.v = "inf" THEN "Infinity"
                       ELSE IF x.v = "-inf" THEN "-Infinity" ELSE x.v]
  ELSE IF x.k = "int" THEN [x EXCEPT !.k = "number"]
  ELSE IF x.k = "str" THEN [x EXCEPT !.k = "string"]
  ELSE [x EXCEPT !.k = "null", !.v = "null"]

\* what the process leaves behind
Exit(status, stdout, stderr) == [status |-> status, stdout |-> stdout, stderr |-> stderr]

\* print(json.dumps(output)); return 0 for an output with an error field
Failed(error, extra) ==
  Exit("0",
       <<dumps(PyDict(<<Entry("table", PyList(<< >>)), Entry("metrics", PyDict(<< >>)),
                        Entry("chartData", PyDict(<< >>)), Entry("error", PyStr(error))>>
                      \o extra))>>,
       << >>)

\* lines 283-284 and the handler of lines 292-303 for json.dumps
Printed(sanitized) ==
  IF Serializable(sanitized) THEN Exit("0", <<dumps(sanitized)>>, << >>)
  ELSE Failed("Runtime error", <<Entry("traceback", PyStr("TypeError"))>>)

\* lines 207-307: the code runs under the alarm and the CPU limit. does is
\* what executing run(df, ctx) does; a run that takes other than two
\* positional arguments raises TypeError at the call
Executed(req) ==
  IF req.program.entry # "run(df, ctx)" \/ req.does = "raises"
  THEN Failed("Runtime error", <<Entry("traceback", PyStr("Traceback"))>>)
  ELSE IF req.does = "runs past the alarm" THEN Failed("Execution timed out", << >>)
  ELSE IF req.does = "catches the alarm and runs on" THEN Exit("SIGXCPU", << >>, << >>)
  ELSE Printed(Normalize(req.returns, req.df, req.ctx))

\* print is one of the built-ins of _prepare_globals (line 105): what the
\* generated code prints while it runs is on stdout before the response of
\* main (a process killed by the CPU limit leaves its buffer unwritten)
AfterPrints(req, out) ==
  IF req.prints /\ req.program.entry = "run(df, ctx)" /\ out.status = "0"
  THEN [out EXCEPT !.stdout = <<Value("text", "printed by run", << >>)>> \o @]
  ELSE out

Execute(req) == AfterPrints(req, Executed(req))

\* _load_dataframe(payload): the data field the table is read from, the
\* first one present in this order, ValueError when none is
_load_dataframe(data) ==
  IF "arrow_ipc_b64" \in data THEN "arrow_ipc_b64"
  ELSE IF "parquet_b64" \in data THEN "parquet_b64"
  ELSE IF "parquet_path" \in data THEN "parquet_path"
  ELSE "ValueError"

\* main() for one request on stdin
worker_main(req) ==
  IF req.stdin # "object" \/ req.code = "missing" \/ Program(req.program).empty
  THEN Exit("1", << >>, <<"Invalid input payload">>)
  ELSE IF ~validate_code(Program(req.program), req.mode).ok
  THEN Failed("Validation failed", <<Entry("validation", PyDict(<< >>))>>)
  ELSE IF _load_dataframe(req.data) = "ValueError" THEN Failed("Failed to load data", << >>)
  ELSE Execute(req)

\* ------------------------------------------------------------------------
\* the worker run on its own (specification SpecWorker)
\* ------------------------------------------------------------------------
Row(region, revenue) ==
  PyDict(<<Entry("region", PyStr(region)), Entry("revenue", revenue)>>)
SampleFrame == DataFrame(<<Row("east", PyInt("1")), Row("west", PyFloat("nan"))>>)

ProgramWith(imp, entry, text) ==
  [text |-> text, imp |-> imp, entry |-> entry, st |-> "df.head()", depth |-> 0,
   outside |-> FALSE]
WorkerPrograms ==
  {ProgramWith("pandas", "run(df, ctx)", "parsed"),
   ProgramWith("os.path", "run(df, ctx)", "parsed"),
   ProgramWith("none", "run(df, ctx, f)", "parsed"),
   ProgramWith("none", "main(df, ctx)", "parsed"),
   ProgramWith("none", "none", "unparsable"),
   ProgramWith("none", "none", "empty")}

Canonical3(table, metric) ==
  PyDict(<<Entry("table", table), Entry("metrics", PyDict(<<Entry("m", metric)>>)),
           Entry("chartData", PyDict(<< >>))>>)
Only(key, value) == PyDict(<<Entry(key, value)>>)

\* what run returns
Returns ==
  {SampleFrame, DataFrame(<< >>), PyList(<<Row("east", PyInt("1"))>>), PyList(<< >>),
   PyNone, PyInt("7"), PyStr("done"), PyTuple(<<PyInt("7")>>), PyDict(<< >>)}
  \cup {Canonical3(PyList(<<Row("east", x)>>), x) :
          x \in {PyFloat("1.5"), PyFloat("nan"), NpFloat64("inf"), NpFloat32("nan"),
                 NpFloat32("2.5"), NpInt64("7")}}
  \cup {Canonical3(PyList(<< >>), PyTuple(<<x>>)) : x \in {PyFloat("nan"), NpFloat32("2.5")}}
  \cup {Canonical3(t, PyInt("7")) :
          t \in {PyStr("n/a"), PyNone, PyTuple(<<Row("east", PyInt("1"))>>),
                 Row("east", PyInt("1")), SampleFrame}}
  \cup {Only("metrics", PyDict(<< >>)), Only("table", PyStr("n/a"))}
  \cup {Only("tables", t) :
          t \in {PyList(<<SampleFrame>>), PyList(<<PyList(<<Row("east", PyInt("1"))>>)>>),
                 PyList(<<Row("east", PyInt("1"))>>), PyList(<<PyStr("n/a")>>),
                 PyList(<< >>), PyStr("n/a"),
                 PyDict(<<Entry("a", PyStr("n/a")), Entry("b", SampleFrame)>>),
                 PyDict(<<Entry("a", PyStr("n/a"))>>)}}
  \cup {Only("charts", c) :
          c \in {Only("kind", PyStr("bar")), PyList(<<Only("kind", PyStr("bar"))>>),
                 PyList(<<PyStr("bar")>>), PyList(<< >>)}}

Request(stdin, codeField, program, data, ctx, does, returns) ==
  [mode |-> "rich", stdin |-> stdin, code |-> codeField, program |-> program,
   data |-> data, df |-> SampleFrame, ctx |-> ctx, does |-> does, returns |-> returns,
   prints |-> FALSE]

\* the request whose code also calls print
Printing(req) == [req EXCEPT !.prints = TRUE]

\* the questions of the worker's requests
q_total == "total revenue by region"
q_change == "change of revenue by region"
q_trend == "revenue trend and variance"
Contexts ==
  {[question |-> q] : q \in {q_total, q_change, q_trend}}
  \cup {[question |-> q_total, row_limit |-> 1]}
Behaviours == {"returns", "raises", "runs past the alarm", "catches the alarm and runs on"}

WorkerCalls ==
  {Request(s, "present", ProgramWith("pandas", "run(df, ctx)", "parsed"), {"parquet_b64"},
           [question |-> q_total], "returns", PyNone) : s \in {"garbage", "array"}}
  \cup {Request("object", "missing", ProgramWith("none", "none", "empty"), d,
                [question |-> q_total], "returns", PyNone) : d \in {{}, {"parquet_b64"}}}
  \cup {Request("object", "present", p, d, [question |-> q_total], "returns", PyNone) :
          p \in WorkerPrograms,
          d \in SUBSET {"arrow_ipc_b64", "parquet_b64", "parquet_path"}}
  \cup {Request("object", "present", ProgramWith("pandas", "run(df, ctx)", "parsed"),
                {"parquet_b64"}, c, b, r) : c \in Contexts, b \in Behaviours, r \in Returns}
  \cup {Printing(Request("object", "present", p, {"parquet_b64"}, [question |-> q_total], b,
                         SampleFrame)) : p \in WorkerPrograms, b \in Behaviours}

Worker ==
  /\ pc = "call"
  /\ ret' = worker_main(arg)
  /\ pc' = "exited"
  /\ NoRequest

InitWorker == CalledWith(WorkerCalls)
NextWorker == Worker
SpecWorker == InitWorker /\ [][NextWorker]_vars

\* the last thing on stdout: the response of main
Response(out) == out.stdout[Len(out.stdout)]

\* the request on stdin is malformed: not a JSON object, or without code
Malformed(req) ==
  req.stdin # "object" \/ req.code = "missing" \/ req.program.text = "empty"

\* the response with empty table, metrics and chartData and an error text
IsErrorResponse(doc) ==
  /\ doc.k = "object"
  /\ DictHas(doc, "table") /\ DictGet(doc, "table") = Value("array", "", << >>)
  /\ DictHas(doc, "metrics") /\ DictGet(doc, "metrics") = Value("object", "", << >>)
  /\ DictHas(doc, "chartData") /\ DictGet(doc, "chartData") = Value("object", "", << >>)
  /\ DictHas(doc, "error") /\ DictGet(doc, "error").k = "string"
  /\ DictGet(doc, "error").v # ""

\* C14 (as stated): the worker exits non-zero with a diagnostic on stderr and
\* nothing on stdout if and only if its request is malformed.
C14_NonZeroOnlyWhenMalformed ==
  (pc = "exited") =>
    (Malformed(arg) <=> (ret.status # "0" /\ ret.stdout = << >> /\ ret.stderr # << >>))
       /\ (Malformed(arg) <=> ret.status # "0")

\* the part of C14 that the code keeps: a rejected validation, a data-load
\* error, an exception of the generated code and an alarm that reaches main
\* exit with status 0 and the error response
C14_FailuresAreResponses ==
  (pc = "exited" /\ ~Malformed(arg)
     /\ (\/ ~validate_code(Program(arg.program), arg.mode).ok
         \/ arg.data = {}
         \/ arg.does \in {"raises", "runs past the alarm"}))
    => ret.status = "0" /\ ret.stdout # << >> /\ IsErrorResponse(Response(ret))

\* the run function returned a value and main printed what it made of it
Answered ==
  /\ pc = "exited"
  /\ ~Malformed(arg)
  /\ validate_code(Program(arg.program), arg.mode).ok
  /\ arg.data # {}
  /\ arg.does = "returns"

\* C16 (as stated): every response written on exit status 0 has a table
\* field that is a list, whatever run returned.
C16_TableIsAList ==
  (pc = "exited" /\ ret.status = "0")
    => /\ ret.stdout # << >>
       /\ DictHas(Response(ret), "table")
       /\ DictGet(Response(ret), "table").k = "array"

\* the part of C16 that the code keeps: the table is a list when run
\* returned no dict, or a dict without a table entry
C16_WhenNoTableIsGiven ==
  (Answered /\ ~(arg.returns.k = "dict" /\ DictHas(arg.returns, "table")))
    => /\ ret.status = "0"
       /\ DictHas(Response(ret), "table")
       /\ DictGet(Response(ret), "table").k = "array"

\* table, metrics and chartData are there, a list and two dicts
IsCanonical(res) ==
  /\ res.k = "dict"
  /\ DictHas(res, "table") /\ DictGet(res, "table").k = "list"
  /\ DictHas(res, "metrics") /\ DictGet(res, "metrics").k = "dict"
  /\ DictHas(res, "chartData") /\ DictGet(res, "chartData").k = "dict"

\* a NaN or an infinity of a numpy type that is no subclass of float
RECURSIVE HasNonFinite32(_)
HasNonFinite32(x) ==
  \/ x.k = "numpy.float32" /\ x.v \in NonFinite
  \/ \E i \in 1..Len(x.items) : HasNonFinite32(x.items[i])

\* C17 (as stated): the normalization of main (shape coercion, plural keys,
\* required keys, sanitization) applied twice equals it applied once.
C17_TwiceIsOnce ==
  Answered =>
    Normalize(Normalize(arg.returns, arg.df, arg.ctx), arg.df, arg.ctx)
      = Normalize(arg.returns, arg.df, arg.ctx)

\* the part of C17 that the code keeps: twice is once for every returned
\* value without such a number, and a canonical result of plain finite
\* values is returned unchanged
C17_TwiceIsOnceWithoutFloat32 ==
  (Answered /\ ~HasNonFinite32(arg.returns))
    => /\ Normalize(Normalize(arg.returns, arg.df, arg.ctx), arg.df, arg.ctx)
            = Normalize(arg.returns, arg.df, arg.ctx)
       /\ (IsCanonical(arg.returns) /\ ~HasNonFinite(arg.returns)
             /\ sanitize_for_json(arg.returns) = arg.returns)
            => Normalize(arg.returns, arg.df, arg.ctx) = arg.returns

\* ------------------------------------------------------------------------
\* the column resolvers called on their own (specification SpecResolver)
\* ------------------------------------------------------------------------
s_Revenue == <<"R", "e", "v", "e", "n", "u", "e">>
s_REV == <<"R", "E", "V">>
s_SALES == <<"S", "A", "L", "E", "S">>
s_COST == <<"C", "O", "S", "T">>
s_abcd == <<"a", "b", "c", "d">>
s_abcdx == <<"a", "b", "c", "d", "x">>
s_abcdy == <<"a", "b", "c", "d", "y">>
s_abcdef == <<"a", "b", "c", "d", "e", "f">>

ResolverNames ==
  {None, << >>, s_revenue, s_Revenue, s_rev, s_REV, s_sales, s_SALES, s_cost, s_COST,
   s_revenu, s_zzz, s_abcd, s_abcdx}

ResolverColumns ==
  {<< >>, <<s_revenue, s_cost>>, <<s_cost, s_revenue>>, <<s_rev, s_revenue>>,
   <<s_sales, s_revenue>>, <<s_region, s_revenue, s_Cost>>, <<s_sales, s_rev>>,
   <<s_abcdx, s_abcdy>>, <<s_abcdy, s_abcdx>>, <<s_abcdef, s_abcdx, s_abcdy>>,
   <<s_abcdef, s_abcd, s_abcdy>>}

ResolverCalls == [mode : {"restricted"}, name : ResolverNames, cols : ResolverColumns]

\* aliases.resolve_column(name, cols), as line 177 of main.py calls it
Resolve ==
  /\ pc = "call"
  /\ ret' = resolve_column(arg.name, arg.cols)
  /\ pc' = "resolved"
  /\ NoRequest

\* _smart_resolve_column(name, cols), as _validate_and_resolve calls it
SmartResolve ==
  /\ pc = "call"
  /\ ret' = _smart_resolve_column(arg.name, arg.cols)
  /\ pc' = "smart_resolved"
  /\ NoRequest

InitResolver == CalledWith(ResolverCalls)
NextResolver == Resolve \/ SmartResolve
SpecResolver == InitResolver /\ [][NextResolver]_vars

\* the first column equal to the name when case is ignored, None when none
CaseInsensitiveMatch(name, cols) ==
  IF \E i \in 1..Len(cols) : Lower(cols[i]) = Lower(name)
  THEN cols[CHOOSE i \in 1..Len(cols) :
              /\ Lower(cols[i]) = Lower(name)
              /\ \A j \in 1..(i - 1) : Lower(cols[j]) # Lower(name)]
  ELSE None

\* the alias target of the name when it is a column, None otherwise
AliasMatch(name, cols) ==
  IF InSeq(AliasGet(Lower(name)), cols) THEN AliasGet(Lower(name)) ELSE None

\* the first hit of: exact, case-insensitive, alias, fuzzy
FirstHit(name, cols) ==
  IF ~Truthy(name) \/ cols = << >> THEN None
  ELSE IF InSeq(name, cols) THEN name
  ELSE IF CaseInsensitiveMatch(name, cols) # None THEN CaseInsensitiveMatch(name, cols)
  ELSE IF AliasMatch(name, cols) # None THEN AliasMatch(name, cols)
  ELSE FirstOrNone(get_close_matches(name, cols))

\* C18 (as stated): resolve_column returns the first hit in the order exact,
\* case-insensitive, alias (when the target is a column), fuzzy at 0.8, else
\* None; the result is None or one of the columns.
C18_ResolutionOrder ==
  (pc = "resolved") =>
    /\ ret = FirstHit(arg.name, arg.cols)
    /\ ret = None \/ InSeq(ret, arg.cols)

\* the parts of C18 that the code keeps: the result of resolve_column is None
\* or one of the columns, None for an empty name or no columns, and
\* Revenue resolves to revenue; _smart_resolve_column follows the stated order
C18_ResultIsAColumn ==
  /\ (pc = "resolved") =>
       /\ ret = None \/ InSeq(ret, arg.cols)
       /\ (~Truthy(arg.name) \/ arg.cols = << >>) => ret = None
       /\ (arg.name = s_Revenue /\ InSeq(s_revenue, arg.cols)) => ret = s_revenue
       /\ arg.name = s_zzz => ret = None
  /\ (pc = "smart_resolved") => ret = FirstHit(arg.name, arg.cols)

\* the columns that pass the fuzzy cutoff for the name
Close(name, cols) == {i \in 1..Len(cols) : PassesCutoff(cols[i], name)}

\* the name reaches the fuzzy step of resolve_column
ReachesFuzzy(name, cols) ==
  /\ Truthy(name)
  /\ ~InSeq(name, cols)
  /\ AliasMatch(name, cols) = None

\* C19 (as stated): of the columns that pass the cutoff the resolver returns
\* one of highest similarity, and of those the one that occurs first in the
\* column list.
C19_TiesGoToTheFirst ==
  (pc = "resolved" /\ ReachesFuzzy(arg.name, arg.cols) /\ Close(arg.name, arg.cols) # {})
    => \E i \in Close(arg.name, arg.cols) :
          /\ ret = arg.cols[i]
          /\ \A j \in Close(arg.name, arg.cols) :
                /\ ~RatioLess(arg.cols[i], arg.cols[j], arg.name)
                /\ (j < i => RatioLess(arg.cols[j], arg.cols[i], arg.name))

\* the part of C19 that the code keeps: the column returned is one of
\* highest similarity among those that pass the cutoff
C19_HighestSimilarity ==
  (pc = "resolved" /\ ReachesFuzzy(arg.name, arg.cols) /\ Close(arg.name, arg.cols) # {})
    => \E i \in Close(arg.name, arg.cols) :
          /\ ret = arg.cols[i]
          /\ \A j \in Close(arg.name, arg.cols) :
                ~RatioLess(arg.cols[i], arg.cols[j], arg.name)

\* ------------------------------------------------------------------------
\* The order of the progress events (specification Spec)
\* ------------------------------------------------------------------------
\* the stage an event type stands for: the code names the running stage
\* running_fast on both paths
Stage(type) == IF type = "running_fast" THEN "running" ELSE type

\* one step of the protocol
\*   received [classifying]
\*     ( running persisting done
\*     | generating_code still_working* code running
\*         [repairing code running] persisting done )
\* with an error event ending it at any point; "stuck" when the event does
\* not fit
ProtocolStep(at, stage) ==
  IF at \in {"stuck", "done", "error"} THEN "stuck"
  ELSE IF at = "start" THEN (IF stage = "received" THEN "received" ELSE "stuck")
  ELSE IF stage = "error" THEN "error"
  ELSE CASE at = "received" /\ stage = "classifying" -> "received"
         [] at = "received" /\ stage = "running" -> "fast_running"
         [] at = "fast_running" /\ stage = "persisting" -> "persisting"
         [] at = "received" /\ stage = "generating_code" -> "generating_code"
         [] at = "generating_code" /\ stage = "still_working" -> "generating_code"
         [] at = "generating_code" /\ stage = "code" -> "code"
         [] at = "code" /\ stage = "running" -> "running"
         [] at = "running" /\ stage = "repairing" -> "repairing"
         [] at = "repairing" /\ stage = "code" -> "repaired_code"
         [] at = "repaired_code" /\ stage = "running" -> "rerunning"
         [] at \in {"running", "rerunning"} /\ stage = "persisting" -> "persisting"
         [] at = "persisting" /\ stage = "done" -> "done"
         [] OTHER -> "stuck"

\* where the protocol stands after the first n events
RECURSIVE ProtocolAfter(_, _)
ProtocolAfter(evs, n) ==
  IF n = 0 THEN "start"
  ELSE ProtocolStep(ProtocolAfter(evs, n - 1), Stage(evs[n].type))

\* C20 (as stated): the events of every request follow the order of the
\* protocol: received first, then running, persisting, done on the fastpath,
\* or generating_code, still_working*, code, running, optionally repairing,
\* code, running, then persisting, done on the fallback path, an error event
\* ending the sequence at any point.
C20_EventsFollowTheProtocol == ProtocolAfter(events, Len(events)) # "stuck"

\* the part of C20 that the code keeps: received is the first event, done
\* occurs at most once and nothing follows it
C20_ReceivedFirstDoneLast ==
  /\ events # << >> => events[1].type = "received"
  /\ \A i \in DoneIndexes : i = Len(events)

\* ------------------------------------------------------------------------
\* Further properties of the worker
\* ------------------------------------------------------------------------
\* C21 (as stated): a request that carries no data field, or more than one,
\* is rejected as a malformed request and is not loaded from one of them.
C21_ExactlyOneDataField ==
  (pc = "exited" /\ Cardinality(arg.data) # 1)
    => /\ ret.status = "1"
       /\ ret.stdout = << >>
       /\ ret.stderr # << >>

\* what the code does for C21: without a data field the request ends as a
\* data-load error response on exit status 0, and with several it is loaded
\* from the first of arrow_ipc_b64, parquet_b64, parquet_path
C21_FirstFieldIsLoaded ==
  (pc = "exited" /\ ~Malformed(arg) /\ validate_code(Program(arg.program), arg.mode).ok)
    => /\ arg.data = {} => ret.status = "0" /\ IsErrorResponse(Response(ret))
       /\ arg.data # {} => _load_dataframe(arg.data) \in arg.data
       /\ (Cardinality(arg.data) > 1 /\ arg.does = "returns") => ret.status = "0"

\* ------------------------------------------------------------------------
\* Further properties of the dispatcher, continued
\* ------------------------------------------------------------------------
\* the presentational code event has been emitted
ShownCode ==
  \E i \in DOMAIN events : events[i].type = "code" /\ events[i].detail = "presentation"

C23_StdoutIsOneDocument ==
  (pc = "exited" /\ ret.status = "0")
    => Len(ret.stdout) = 1 /\ ret.stdout[1].k = "object"

\* the part of C23 that the code keeps: when the generated code prints
\* nothing, stdout is the one document, and with prints it is still the last
\* thing on stdout
C23_OneDocumentWithoutPrints ==
  (pc = "exited" /\ ret.status = "0")
    => /\ ret.stdout # << >> /\ Response(ret).k = "object"
       /\ ~arg.prints => Len(ret.stdout) = 1

\* C25 (as stated): on every worker execution the question in the worker's
\* ctx is the question the user submitted, and ctx carries the row limit.
C25_CtxCarriesTheOriginalQuestion ==
  \A i \in DOMAIN runs :
     /\ runs[i].ctx.question = Q(<< >>, asked)
     /\ runs[i].ctx.row_limit = DefaultRowLimit

\* what the code does for C25: the question in ctx is the local variable
\* question at the time of the run, the user's text with the failure
\* descriptions of the earlier generation attempts in front of it; it is the
\* user's question when no attempt failed before
C25_CtxCarriesTheRewrittenQuestion ==
  \A i \in DOMAIN runs :
     /\ runs[i].ctx.question = question
     /\ runs[i].ctx.question.text = asked
     /\ runs[i].ctx.row_limit = DefaultRowLimit
     /\ Len(genLog) = 1 => runs[i].ctx.question = Q(<< >>, asked)

\* ceil(n / PollSlice)
Slices(n) == (n + PollSlice - 1) \div PollSlice

\* the index of the last generating_code event, 0 when there is none
GeneratingIndex ==
  IF \E i \in DOMAIN events : events[i].type = "generating_code"
  THEN CHOOSE i \in DOMAIN events :
         /\ events[i].type = "generating_code"
         /\ \A j \in DOMAIN events : events[j].type = "generating_code" => j <= i
  ELSE 0

\* the still_working events of the generation loop
Keepalives ==
  {i \in DOMAIN events : i > GeneratingIndex /\ events[i].type = "still_working"}

\* the budget of a generation attempt while it is polled
BudgetIsConsumed ==
  /\ pc = "gen_poll" =>
       /\ remaining > 0 /\ remaining <= CODEGEN_TIMEOUT_SECONDS
       /\ Len(genCalls) >= 1 /\ Len(genCalls) <= max_retries
       /\ Cardinality(Keepalives) + Slices(remaining)
            <= (Len(genCalls) - 1) * (Slices(CODEGEN_TIMEOUT_SECONDS) - 1)
               + Slices(CODEGEN_TIMEOUT_SECONDS)
  /\ pc = "gen_join" =>
       /\ remaining <= 0
       /\ Cardinality(Keepalives)
            <= (Len(genCalls) - 1) * (Slices(CODEGEN_TIMEOUT_SECONDS) - 1)
               + Slices(CODEGEN_TIMEOUT_SECONDS)
  /\ LastIs("error", "CODEGEN_TIMEOUT") => pc = "end"

\* a step of a generation attempt under way
BudgetStep ==
  /\ (pc = "gen_poll" /\ pc' \in {"gen_poll", "gen_join"}) =>
       /\ remaining' = remaining - PollSlice
       /\ events' = Append(events, Ev("still_working", "", ""))
       /\ genCalls' = genCalls
  /\ pc = "gen_poll" => remaining' <= remaining
  /\ pc = "gen_join" =>
       /\ pc' = "end"
       /\ events' = Append(events, ErrorEv("CODEGEN_TIMEOUT"))
       /\ genCalls' = genCalls

\* C26: within one generation attempt the remaining budget only decreases,
\* by the poll slice with every still_working event; an attempt emits at most
\* ceil(CODEGEN_TIMEOUT_SECONDS / 2) of them; when the budget is used up the
\* attempt ends with CODEGEN_TIMEOUT and the request ends without another
\* generation attempt.
C26_KeepalivesConsumeTheBudget == [](BudgetIsConsumed) /\ [][BudgetStep]_vars

\* a request ended by CODEGEN_TIMEOUT after the keepalives of a whole budget
C26_Witness ==
  /\ pc = "end"
  /\ LastIs("error", "CODEGEN_TIMEOUT")
  /\ Cardinality(Keepalives) >= Slices(CODEGEN_TIMEOUT_SECONDS)
  /\ remaining <= 0

\* the places where the dispatcher has seen the phase timeout elapse and is
\* leaving the with block of the executor that runs the external call
JoinPoints == {"classify_join", "gen_join", "repair_join"}

\* the steps the dispatcher is taken to keep making: all but leaving such a
\* block, which waits for the external call to end (nothing is assumed of the
\* routing computation either, which no timeout concerns)
OwnStep == pc \notin JoinPoints \cup {"route"} /\ Next

\* the dispatcher keeps taking its own steps; nothing makes an external call
\* (classify_intent, generate_code_and_summary, repair_code) return
SpecAbandon == Init /\ [][Next]_vars /\ WF_vars(OwnStep)

\* C27: once the timeout of a phase has elapsed with the external call still
\* in flight, the dispatcher moves on or ends the request, whether the call
\* returns or not.
C27_TimeoutAbandonsTheCall == (pc \in JoinPoints) ~> (pc \notin JoinPoints)

\* everywhere else the dispatcher goes on, up to the end of the request
C27_OtherwiseTheRequestGoesOn ==
  (pc \notin JoinPoints \cup {"route"}) ~> (pc \in JoinPoints \cup {"route", "end", "raised"})

\* the description of the failure of generation attempt i, as the loop words
\* it for the next request
FailureOf(i) ==
  CASE genLog[i].kind = "invalid" ->
         [kind |-> "validation_failed",
          errors |-> validate_code(Source(genLog[i].code), env.SANDBOX_MODE).errors]
    [] OTHER ->
         [kind |-> "attempt_failed",
          errors |-> <<Msg("LLM did not return a valid code block.", << >>)>>]

\* the request of attempt i + 1 is the one of attempt i with the failure of
\* attempt i added to it
FedBack(i) ==
  /\ genCalls[i + 1].text = genCalls[i].text
  /\ genCalls[i + 1].fb = <<FailureOf(i)>> \o genCalls[i].fb

\* attempt i found no code in the generator's answer
NoCodeExtracted(i) ==
  \/ genLog[i].kind = "no_code"
  \/ genLog[i].kind = "raised" /\ genLog[i].error = CODEGEN_FAILED

\* C28: when a generation attempt fails because no code could be extracted
\* from the answer or because the validator rejected the code, the next
\* generation request carries the description of that failure with the
\* question, with GEMINI_FUSED and without.
C28_FailureIsFedBack ==
  \A i \in 1..(Len(genCalls) - 1) :
    (NoCodeExtracted(i) \/ genLog[i].kind = "invalid") => FedBack(i)

\* it does when the answer came back from the generator: rejected code in
\* either mode, no code block with GEMINI_FUSED
C28_ReturnedFailureIsFedBack ==
  \A i \in 1..(Len(genCalls) - 1) :
    genLog[i].kind \in {"no_code", "invalid"} => FedBack(i)

\* without GEMINI_FUSED an answer without code leaves the request as it was
C28_RaisedFailureIsNotFedBack ==
  \A i \in 1..(Len(genCalls) - 1) :
    genLog[i].kind = "raised" => genCalls[i + 1] = genCalls[i]

\* ------------------------------------------------------------------------
\* The worker's answer to a question about a comparison
\* ------------------------------------------------------------------------
\* the wording of the question implies a computed comparison
ImpliesComparison(q) == q \in {q_change, q_trend}

\* the columns of a row
ColumnsOf(row) == {row.items[i].key : i \in 1..Len(row.items)}

\* the table has rows, each with exactly the columns of the input table
HasColumnsOf(table, df) ==
  /\ table.k = "array" /\ table.items # << >> /\ df.items # << >>
  /\ \A i \in 1..Len(table.items) :
       (table.items[i].k = "object" /\ ColumnsOf(table.items[i]) = ColumnsOf(df.items[1]))

\* a response without error whose table has the columns of the input table
IsGenericSuccess(doc, df) ==
  /\ doc.k = "object"
  /\ ~DictHas(doc, "error")
  /\ DictHas(doc, "table")
  /\ HasColumnsOf(DictGet(doc, "table"), df)

\* C29: for a question whose wording implies a computed comparison, a result
\* whose table has exactly the columns of the input table is never returned
\* as a success; the response carries an error instead.
C29_GenericResultIsAnError ==
  (pc = "exited" /\ ret.status = "0" /\ ImpliesComparison(arg.ctx.question))
    => ~IsGenericSuccess(Response(ret), arg.df)

\* the response to such a question is the one to any other question
C29_TheQuestionIsNotRead ==
  pc = "exited" => ret = worker_main([arg EXCEPT !.ctx = [@ EXCEPT !.question = q_total]])

\* the code events of the fallback path, in the order of their emission
IsFallbackCode(e) == e.type = "code" /\ e.detail = "fallback_execution"
FallbackCode == SelectSeq(events, IsFallbackCode)

\* C30: every execution of the worker on the fallback path comes after a code
\* event of its own whose text is the code that is executed, the validated
\* candidate for the first execution and the repaired one for the second; the
\* code stored as the executed code after success is the text of the last
\* code event.
C30_ShownCodeIsExecutedCode ==
  /\ Len(runs) <= Len(FallbackCode)
  /\ Len(FallbackCode) <= Len(runs) + 1
  /\ \A i \in 1..Len(runs) : runs[i].code = FallbackCode[i].text
  /\ (Len(runs) = 2 => runs[2].code = hist.repaired)
  /\ (hist.persisted_code # "-" =>
        /\ FallbackCode # << >>
        /\ hist.persisted_code = FallbackCode[Len(FallbackCode)].text)

\* a request whose first execution failed, whose repaired code differs from the
\* first candidate, was shown, ran and was stored
C30_Witness ==
  /\ Len(runs) = 2
  /\ runs[1].code # runs[2].code
  /\ Len(FallbackCode) = 2
  /\ FallbackCode[2].text = runs[2].code
  /\ hist.persisted_code = runs[2].code

====
